---- MODULE Spec2Model ----
(***************************************************************************)
(* A model of the price-protection protocol: the Merkle price oracle, the  *)
(* claim circuits, the settlement contracts and the commitment generator.  *)
(*                                                                         *)
(* Field elements are modelled as flat sequences of integers in prefix     *)
(* notation, so that the hash is injective (collision-free):               *)
(*   <<0, n>>            the integer n                                     *)
(*   <<9, k>>            keccak256 of the string numbered k                *)
(*   <<1>> \o a          Poseidon([a])                                     *)
(*   <<2>> \o a \o b     Poseidon([a, b])                                  *)
(*   <<5>> \o ...        Poseidon of five inputs                           *)
(*   <<6>> \o ...        Poseidon of six inputs                            *)
(* Arithmetic on field elements is done on integers; a negative integer    *)
(* -k stands for the wrapped-around field element p - k.                   *)
(***************************************************************************)
EXTENDS Integers, Naturals, Sequences, FiniteSets, TLC

VARIABLES
    fin,                \* the inputs of the pure function under check
    fout,               \* its result: <<>> until applied, then <<result>>
    rev,                \* the settlement contract revision deployed
    policies,           \* policies: policyId -> Policy
    nextPolicyId,       \* nextPolicyId
    totalPoliciesSold,  \* totalPoliciesSold (dynamic-premium revision)
    currentPrices,      \* currentPrices / priceOracle: product -> price
    priceMerkleRoot,    \* priceMerkleRoot (merkle-root revision)
    rootPrices,         \* the price map the oracle built priceMerkleRoot from
    paidOut,            \* policyId -> the payouts transferred for it
    vaultBalance,       \* the contract's token (or ether) balance
    last,               \* the last contract call and its outcome
    oPrices,            \* MinimalPriceOracle.currentPrices
    oTree,              \* MinimalPriceOracle.tree (its leaves)
    oFile,              \* merkle-tree.json (the persisted snapshot)
    chainRoot,          \* the ledger's priceMerkleRoot as the oracle writes it
    reqs,               \* the in-flight mutation requests
    olog                \* the order of local rebuilds and ledger writes

vars == <<fin, fout, rev, policies, nextPolicyId, totalPoliciesSold, currentPrices,
          priceMerkleRoot, rootPrices, paidOut, vaultBalance, last, oPrices, oTree,
          oFile, chainRoot, reqs, olog>>

vaultVars == <<rev, policies, nextPolicyId, totalPoliciesSold, currentPrices,
               priceMerkleRoot, rootPrices, paidOut, vaultBalance, last>>

oracleVars == <<oPrices, oTree, oFile, chainRoot, reqs, olog>>

fnVars == <<fin, fout>>

-----------------------------------------------------------------------------
(* Field elements and hashes *)

FE(n) == <<0, n>>

ZERO == FE(0)

Keccak(k) == <<9, k>>

Poseidon1(a) == <<1>> \o a

Poseidon2(a, b) == <<2>> \o a \o b

Poseidon5(a, b, c, d, e) == <<5>> \o a \o b \o c \o d \o e

Poseidon6(a, b, c, d, e, f) == <<6>> \o a \o b \o c \o d \o e \o f

-----------------------------------------------------------------------------
(* The Merkle engine *)

\* the circuit's proof length, MerkleTreeInclusionProof(4)
LEVELS == 4

\* generateLeafValues pads the leaves to this many
LEAVES == 16

calculateProductHash(id) == Poseidon1(Keccak(id))

calculateLeafHash(productHash, price) == Poseidon2(productHash, FE(price))

\* products: a sequence of product ids; priceMap: id -> price
RECURSIVE PadLeaves(_)
PadLeaves(leafValues) ==
    IF Len(leafValues) < LEAVES THEN PadLeaves(Append(leafValues, ZERO)) ELSE leafValues

generateLeafValues(products, priceMap) ==
    PadLeaves([k \in 1..Len(products) |->
                  calculateLeafHash(calculateProductHash(products[k]), priceMap[products[k]])])

\* one pass of buildTree's while loop: hash adjacent pairs, a missing right is 0
NextLevel(currentLevel) ==
    [j \in 1..((Len(currentLevel) + 1) \div 2) |->
        Poseidon2(currentLevel[2 * j - 1],
                  IF 2 * j <= Len(currentLevel) THEN currentLevel[2 * j] ELSE ZERO)]

RECURSIVE BuildFrom(_, _)
BuildFrom(levels, currentLevel) ==
    IF Len(currentLevel) > 1
    THEN BuildFrom(Append(levels, NextLevel(currentLevel)), NextLevel(currentLevel))
    ELSE levels

\* ProperMerkleTree.buildTree: every level, leaves first
buildTree(leaves) == BuildFrom(<<leaves>>, leaves)

getRoot(levels) == levels[Len(levels)][1]

\* the % of the source: the remainder has the sign of the dividend
JsRem(a, b) == IF a >= 0 THEN a % b ELSE 0 - ((0 - a) % b)

\* what indexing an array outside its bounds yields
undefined == <<>>

SiblingIndexMut(currentIndex) == currentIndex + 1

\* 0-based, as in the source
SiblingIndex(currentIndex) ==
    IF JsRem(currentIndex, 2) = 1 THEN currentIndex - 1 ELSE currentIndex + 1

RECURSIVE ProofFrom(_, _, _, _)
ProofFrom(levels, level, currentIndex, acc) ==
    IF level > Len(levels) - 1
    THEN acc
    ELSE LET currentLevel == levels[level]
             siblingIndex == SiblingIndex(currentIndex)
             sibling == IF siblingIndex < Len(currentLevel)
                        THEN IF siblingIndex >= 0 THEN currentLevel[siblingIndex + 1]
                                                  ELSE undefined
                        ELSE ZERO
         IN  ProofFrom(levels, level + 1, currentIndex \div 2,
                       [siblings |-> Append(acc.siblings, sibling),
                        pathIndices |-> Append(acc.pathIndices,
                                               IF JsRem(currentIndex, 2) = 1 THEN 1 ELSE 0)])

\* ProperMerkleTree.getProof
getProof(levels, leafIndex) ==
    ProofFrom(levels, 1, leafIndex, [siblings |-> <<>>, pathIndices |-> <<>>])

\* the circuit with its operands exchanged
LevelHashMut(currentHash, sibling, pathIndex) ==
    IF pathIndex = 1 THEN Poseidon2(currentHash, sibling)
                     ELSE Poseidon2(sibling, currentHash)

\* MerkleTreeInclusionProof: currentHash[k+1] from currentHash[k]
LevelHash(currentHash, sibling, pathIndex) ==
    IF pathIndex = 1 THEN Poseidon2(sibling, currentHash)
                     ELSE Poseidon2(currentHash, sibling)

RECURSIVE Replay(_, _, _, _)
Replay(currentHash, siblings, pathIndices, k) ==
    IF k > Len(siblings)
    THEN currentHash
    ELSE Replay(LevelHash(currentHash, siblings[k], pathIndices[k]),
                siblings, pathIndices, k + 1)

\* the circuit's constraints: the flags are bits and the replay ends in root
MerkleTreeInclusionProof(leaf, pathIndices, siblings, root) ==
    /\ \A k \in 1..Len(pathIndices) : pathIndices[k] \in {0, 1}
    /\ Replay(leaf, siblings, pathIndices, 1) = root

-----------------------------------------------------------------------------
(* Exact field arithmetic on small rationals.  The circuits divide with the  *)
(* field's `/`, multiplication by the modular inverse, which is exact        *)
(* rational arithmetic as long as numerators and denominators stay far below *)
(* the field's order.  A value is m * 10^e / d in lowest terms, so that the  *)
(* circuits' intermediate products (35000000 * 100 and larger) are stored    *)
(* without forming the product.                                              *)

RECURSIVE Gcd(_, _)
Gcd(a, b) == IF b = 0 THEN a ELSE Gcd(b, a % b)

RECURSIVE Pow10(_)
Pow10(e) == IF e = 0 THEN 1 ELSE 10 * Pow10(e - 1)

RECURSIVE QNorm(_, _, _)
QNorm(m, e, d) ==
    IF m = 0 THEN [m |-> 0, e |-> 0, d |-> 1]
    ELSE IF Gcd(m, d) > 1 THEN QNorm(m \div Gcd(m, d), e, d \div Gcd(m, d))
    ELSE IF e > 0 /\ d % 10 = 0 THEN QNorm(m, e - 1, d \div 10)
    ELSE IF e > 0 /\ d % 2 = 0 THEN QNorm(m * 5, e - 1, d \div 2)
    ELSE IF e > 0 /\ d % 5 = 0 THEN QNorm(m * 2, e - 1, d \div 5)
    ELSE IF m % 10 = 0 THEN QNorm(m \div 10, e + 1, d)
    ELSE [m |-> m, e |-> e, d |-> d]

QInt(n) == QNorm(n, 0, 1)

QAdd(a, b) == QNorm(a.m * Pow10(a.e) * b.d + b.m * Pow10(b.e) * a.d, 0, a.d * b.d)

QMul(a, b) == QNorm(a.m * b.m, a.e + b.e, a.d * b.d)

\* the field's a / c for an integer constant c
QDiv(a, c) == QNorm(a.m, a.e, a.d * c)

\* floor(a * b / c) of unsigned integers, computed without forming a * b
MulDiv(a, b, c) == (a \div c) * b + ((a % c) * b) \div c

-----------------------------------------------------------------------------
(* circomlib comparators, on inputs within their bit width: out is 1 or 0.  *)
(* LessThan(n) decides by bit n of in[0] + 2^n - in[1], so a wrapped-around *)
(* (negative) input compares as the negative integer it stands for.         *)

LessThan(a, b) == IF a < b THEN 1 ELSE 0

GreaterThan(a, b) == LessThan(b, a)

LessEqThan(a, b) == LessThan(a, b + 1)

GreaterEqThan(a, b) == LessThan(b, a + 1)

IsEqual(a, b) == IF a = b THEN 1 ELSE 0

-----------------------------------------------------------------------------
(* Constants of the contracts and circuits *)

TOKEN_MULTIPLIER == 1000000

\* InsuranceVault, dynamic-premium revision
TIER1_BASE == 35 * TOKEN_MULTIPLIER

TIER2_BASE == 65 * TOKEN_MULTIPLIER

TIER3_BASE == 100 * TOKEN_MULTIPLIER

\* InsuranceVault, merkle-root revision
TIER1_PREMIUM == 1 * TOKEN_MULTIPLIER

TIER2_PREMIUM == 3 * TOKEN_MULTIPLIER

TIER3_PREMIUM == 7 * TOKEN_MULTIPLIER

TIER4_PREMIUM == 13 * TOKEN_MULTIPLIER

TIER5_PREMIUM == 20 * TOKEN_MULTIPLIER

\* priceProtection.circom: signal TIERk_BASE
C_TIER1_BASE == 35000000

C_TIER2_BASE == 65000000

C_TIER3_BASE == 100000000

\* priceProtection.circom: the bounds of the three tiers
T3_TIER1_END == 500000000

T3_TIER2_END == 1000000000

\* the five-tier circuit: var TIERk_PREMIUM
C_TIER1_PREMIUM == 1000000

C_TIER2_PREMIUM == 3000000

C_TIER3_PREMIUM == 7000000

C_TIER4_PREMIUM == 13000000

C_TIER5_PREMIUM == 20000000

\* the five-tier circuit: the bounds of the tiers
T5_TIER1_MIN == 1000000

T5_TIER1_MAX == 99999999

T5_TIER2_MIN == 100000000

T5_TIER2_MAX == 499000000

T5_TIER3_MIN == 500000000

T5_TIER3_MAX == 999000000

T5_TIER4_MIN == 1000000000

T5_TIER4_MAX == 1999000000

T5_TIER5_MIN == 2000000000

\* tier 5 ends at 10000000000 = 10000 * 10^6, written in whole tokens
T5_TIER5_MAX_TOKENS == 10000

\* LessEqThan(price, tokens * 10^6) without forming the product
LessEqTokens(price, tokens) ==
    IF \/ price \div TOKEN_MULTIPLIER < tokens
       \/ (price \div TOKEN_MULTIPLIER = tokens /\ price % TOKEN_MULTIPLIER = 0)
    THEN 1 ELSE 0

-----------------------------------------------------------------------------
(* Tier classification *)

\* the five-tier circuit: tierKValid
Tier5Valid(invoicePrice) ==
    [k \in 1..5 |->
        CASE k = 1 -> GreaterEqThan(invoicePrice, T5_TIER1_MIN) * LessEqThan(invoicePrice, T5_TIER1_MAX)
          [] k = 2 -> GreaterEqThan(invoicePrice, T5_TIER2_MIN) * LessEqThan(invoicePrice, T5_TIER2_MAX)
          [] k = 3 -> GreaterEqThan(invoicePrice, T5_TIER3_MIN) * LessEqThan(invoicePrice, T5_TIER3_MAX)
          [] k = 4 -> GreaterEqThan(invoicePrice, T5_TIER4_MIN) * LessEqThan(invoicePrice, T5_TIER4_MAX)
          [] k = 5 -> GreaterEqThan(invoicePrice, T5_TIER5_MIN) * LessEqTokens(invoicePrice, T5_TIER5_MAX_TOKENS)]

\* the five-tier circuit: correctTier
CorrectTier5(invoicePrice) ==
    LET v == Tier5Valid(invoicePrice)
    IN  v[1] * 1 + v[2] * 2 + v[3] * 3 + v[4] * 4 + v[5] * 5

\* priceProtection.circom: tier1Check.out, tier2Valid, tier3Check.out
Tier3Valid(invoicePrice) ==
    [k \in 1..3 |->
        CASE k = 1 -> LessThan(invoicePrice, T3_TIER1_END)
          [] k = 2 -> GreaterEqThan(invoicePrice, T3_TIER1_END) * LessEqThan(invoicePrice, T3_TIER2_END)
          [] k = 3 -> GreaterThan(invoicePrice, T3_TIER2_END)]

\* priceProtection.circom: correctTier
CorrectTier3(invoicePrice) ==
    LET v == Tier3Valid(invoicePrice)
    IN  v[1] * 1 + v[2] * 2 + v[3] * 3

-----------------------------------------------------------------------------
(* Premiums *)

\* the factor rising 1% for every 100 policies
getDynamicFactorMut(total) == 100 + (total \div 100)

\* InsuranceVault.getDynamicFactor
getDynamicFactor(total) == 100 + (total \div 10)

\* the premium divided by the factor
VaultTierPremiumMut(k, total) ==
    MulDiv(CASE k = 1 -> TIER1_BASE [] k = 2 -> TIER2_BASE [] k = 3 -> TIER3_BASE,
           100, getDynamicFactor(total))

\* InsuranceVault.buyPolicy and getQuote: TIERk_BASE * dynamicFactor / 100
VaultTierPremium(k, total) ==
    MulDiv(CASE k = 1 -> TIER1_BASE [] k = 2 -> TIER2_BASE [] k = 3 -> TIER3_BASE,
           getDynamicFactor(total), 100)

\* InsuranceVault.getQuote
getQuote(total) ==
    [tier1Premium |-> VaultTierPremium(1, total),
     tier2Premium |-> VaultTierPremium(2, total),
     tier3Premium |-> VaultTierPremium(3, total),
     currentDynamicFactor |-> getDynamicFactor(total),
     currentPolicyCount |-> total]

\* priceProtection.circom: dynamicFactor <== 100 + purchaseCount / 10
CircuitDynamicFactor(purchaseCount) == QAdd(QInt(100), QDiv(QInt(purchaseCount), 10))

\* priceProtection.circom: tierKTemp <== TIERk_BASE * dynamicFactor;
\*                         tierKPremium <== tierKTemp / 100
CircuitTierPremium(k, purchaseCount) ==
    QDiv(QMul(QInt(CASE k = 1 -> C_TIER1_BASE [] k = 2 -> C_TIER2_BASE [] k = 3 -> C_TIER3_BASE),
              CircuitDynamicFactor(purchaseCount)),
         100)

\* priceProtection.circom: expectedPremium, the sum of tierSelectorK.out * tierKPremium
CircuitExpectedPremium3(selectedTier, purchaseCount) ==
    QAdd(QAdd(QMul(QInt(IsEqual(selectedTier, 1)), CircuitTierPremium(1, purchaseCount)),
              QMul(QInt(IsEqual(selectedTier, 2)), CircuitTierPremium(2, purchaseCount))),
         QMul(QInt(IsEqual(selectedTier, 3)), CircuitTierPremium(3, purchaseCount)))

\* the five-tier circuit: expectedPremium
CircuitExpectedPremium5(selectedTier) ==
    IsEqual(selectedTier, 1) * C_TIER1_PREMIUM + IsEqual(selectedTier, 2) * C_TIER2_PREMIUM
    + IsEqual(selectedTier, 3) * C_TIER3_PREMIUM + IsEqual(selectedTier, 4) * C_TIER4_PREMIUM
    + IsEqual(selectedTier, 5) * C_TIER5_PREMIUM

-----------------------------------------------------------------------------
(* The claim circuits.  Each takes a witness w (every input signal) and      *)
(* gives sat, whether the constraints hold, and the output signals.          *)

\* the six inputs of the commitment hasher, in the circuit's order
CommitmentInputs(w) ==
    <<w.orderHash, FE(w.invoicePrice), FE(w.invoiceDate), w.productHash, w.salt,
      FE(w.selectedTier)>>

\* commitment === hasher.out
CommitmentConstraint(commitment, inputs) ==
    commitment = Poseidon6(inputs[1], inputs[2], inputs[3], inputs[4], inputs[5], inputs[6])

\* the five-tier circuit with the Merkle inclusion proof
ClaimCircuitMerkle(w) ==
    LET priceCheck == GreaterThan(w.invoicePrice, w.currentPrice)
        tierMatch == IsEqual(CorrectTier5(w.invoicePrice), w.selectedTier)
        premiumMatch == IsEqual(w.paidPremium, CircuitExpectedPremium5(w.selectedTier))
        dateCheck == LessEqThan(w.invoiceDate, w.policyStartDate)
        payoutAmount == w.invoicePrice - w.currentPrice
    IN  [sat |-> /\ CommitmentConstraint(w.commitment, CommitmentInputs(w))
                 /\ MerkleTreeInclusionProof(w.leafHash, w.leafIndex, w.merkleProof, w.merkleRoot),
         validClaim |-> priceCheck * dateCheck,
         validPremium |-> tierMatch * premiumMatch,
         validPayout |-> GreaterThan(payoutAmount, 0),
         payoutAmount |-> payoutAmount]

\* priceProtection.circom: three tiers, dynamic premium
ClaimCircuitDynamic(w) ==
    LET tierMatch == IsEqual(CorrectTier3(w.invoicePrice), w.selectedTier)
        premiumMatch == IsEqual(QInt(w.paidPremium),
                                CircuitExpectedPremium3(w.selectedTier, w.purchaseCount))
        validPremium == tierMatch * premiumMatch
        dateCheck == LessEqThan(w.invoiceDate, w.policyStartDate)
        priceCheck == GreaterThan(w.invoicePrice, w.currentPrice)
        priceDrop == w.invoicePrice - w.currentPrice
        allValid == priceCheck * validPremium
    IN  [sat |-> /\ w.commitment = Poseidon6(w.orderHash, FE(w.invoicePrice), FE(w.invoiceDate),
                                             w.productHash, w.salt, FE(w.selectedTier))
                 /\ dateCheck = 1,
         validClaim |-> allValid,
         priceDifference |-> priceDrop * allValid,
         validPremium |-> validPremium,
         priceDrop |-> priceDrop]

\* the first circuit: five-input commitment, no tiers
ClaimCircuitV1(w) ==
    LET date_check == GreaterEqThan(w.invoiceDate, w.policyStartDate)
        price_check == GreaterThan(w.invoicePrice, w.currentPrice)
        price_drop == w.invoicePrice - w.currentPrice
    IN  [sat |-> /\ w.commitmentV1 = Poseidon5(w.orderHash, FE(w.invoicePrice), FE(w.invoiceDate),
                                               w.productHash, w.salt)
                 /\ w.publicAsinHash = w.productHash
                 /\ date_check = 1,
         valid_claim |-> price_check,
         price_difference |-> price_drop * price_check]

-----------------------------------------------------------------------------
(* The catalog the checks run on *)

\* the catalog variants considered (each with its own base prices)
MaxVariant == 1

\* a product's base price in the catalog variant v
BasePrice(id, v) == 100 + 10 * id + v

Catalog(n) == [k \in 1..n |-> k]

CatalogPrices(n, v) == [id \in 1..n |-> BasePrice(id, v)]

-----------------------------------------------------------------------------
(* Idle values of the state a specification does not use *)

FnIdle == fin = <<>> /\ fout = <<>>

VaultIdle ==
    /\ rev = "none"
    /\ policies = <<>>
    /\ nextPolicyId = 1
    /\ totalPoliciesSold = 0
    /\ currentPrices = <<>>
    /\ priceMerkleRoot = ZERO
    /\ rootPrices = <<>>
    /\ paidOut = <<>>
    /\ vaultBalance = 0
    /\ last = <<>>

OracleIdle ==
    /\ oPrices = <<>>
    /\ oTree = <<>>
    /\ oFile = <<>>
    /\ chainRoot = ZERO
    /\ reqs = <<>>
    /\ olog = <<>>

-----------------------------------------------------------------------------
(* SpecMerkle: build the tree of a catalog and take the proof of one leaf *)

InitMerkle ==
    /\ fin \in [n : 1..LEAVES, i : 0..(LEAVES - 1), v : 0..MaxVariant]
    /\ fout = <<>>
    /\ VaultIdle
    /\ OracleIdle

BuildAndProve ==
    /\ fout = <<>>
    /\ LET leaves == generateLeafValues(Catalog(fin.n), CatalogPrices(fin.n, fin.v))
           levels == buildTree(leaves)
           proof == getProof(levels, fin.i)
       IN  fout' = <<[leaf |-> leaves[fin.i + 1],
                      levels |-> levels,
                      root |-> getRoot(levels),
                      siblings |-> proof.siblings,
                      pathIndices |-> proof.pathIndices]>>
    /\ UNCHANGED <<fin, vaultVars, oracleVars>>

NextMerkle == BuildAndProve

SpecMerkle == InitMerkle /\ [][NextMerkle]_vars

\* the values a tampered sibling may take at level k of the proof in r
OtherSiblings(r, k) ==
    ({ZERO, FE(7), r.leaf, r.root} \cup {r.levels[k][j] : j \in 1..Len(r.levels[k])})
        \ {r.siblings[k]}

\* the running hash the verifier holds before level k
RunningHash(r, k) ==
    Replay(r.leaf, SubSeq(r.siblings, 1, k - 1), SubSeq(r.pathIndices, 1, k - 1), 1)

HonestReplayOk(r) ==
    MerkleTreeInclusionProof(r.leaf, r.pathIndices, r.siblings, r.root)

SiblingTamperFails(r, k) ==
    \A s \in OtherSiblings(r, k) :
        ~MerkleTreeInclusionProof(r.leaf, r.pathIndices,
                                  [r.siblings EXCEPT ![k] = s], r.root)

FlagFlipFails(r, k) ==
    ~MerkleTreeInclusionProof(r.leaf, [r.pathIndices EXCEPT ![k] = 1 - @],
                              r.siblings, r.root)

\* C3 as stated: for every catalog size 1..16 and every leaf index 0..15 the
\* replay of getProof(i) yields getRoot(), and replacing any one sibling or
\* flipping any one flag makes the replay miss the root.
C3_Original ==
    fout # <<>> =>
        /\ Len(fout[1].siblings) = LEVELS
        /\ HonestReplayOk(fout[1])
        /\ \A k \in 1..LEVELS :
              SiblingTamperFails(fout[1], k) /\ FlagFlipFails(fout[1], k)

\* C3 amended: the replay of getProof(i) yields getRoot() for every index;
\* replacing any one sibling makes it miss the root; flipping the flag of
\* level k makes it miss the root exactly when the sibling at level k differs
\* from the running hash, which is every level when i is a product's index
\* (i < catalog size) and not when leaf i and its sibling are both padding.
C3_ProofReplay ==
    fout # <<>> =>
        /\ Len(fout[1].siblings) = LEVELS
        /\ Len(fout[1].pathIndices) = LEVELS
        /\ HonestReplayOk(fout[1])
        /\ \A k \in 1..LEVELS :
              /\ SiblingTamperFails(fout[1], k)
              /\ FlagFlipFails(fout[1], k) <=> (fout[1].siblings[k] # RunningHash(fout[1], k))
              /\ fin.i < fin.n => FlagFlipFails(fout[1], k)

\* a product leaf's proof has been built and replayed in a padded tree
C3_Witness ==
    /\ fout # <<>>
    /\ fin.n = 5 /\ fin.i = 4
    /\ fout[1].siblings[1] = ZERO
    /\ fout[1].leaf # ZERO
    /\ HonestReplayOk(fout[1])

\* getMerkleProof's label of the sibling at one level of the proof
position(pathIndex) == IF pathIndex = 1 THEN "left" ELSE "right"

RECURSIVE Pow2(_)
Pow2(e) == IF e = 0 THEN 1 ELSE 2 * Pow2(e - 1)

\* the k-th binary digit of i, the least significant being the first
Bit(i, k) == (i \div Pow2(k - 1)) % 2

\* the 0-based index, at level k, of the node on the path of leaf i
PathNode(i, k) == i \div Pow2(k - 1)

\* C22: for every leaf index i in 0..15 the flags of getProof(i) are the binary
\* digits of i, least significant first (index 0 gives 0,0,0,0); flag k is 1
\* exactly when the node of the path at level k is a right child, that is
\* when its parent in the tree is the hash of (sibling, node); the circuit
\* hashes the two in that same order, and the oracle labels the sibling
\* "left" exactly for flag 1.
C22_FlagConvention ==
    fout # <<>> =>
        LET r == fout[1]
        IN  /\ r.pathIndices = [k \in 1..LEVELS |-> Bit(fin.i, k)]
            /\ fin.i = 0 => r.pathIndices = <<0, 0, 0, 0>>
            /\ \A k \in 1..LEVELS :
                  LET node == r.levels[k][PathNode(fin.i, k) + 1]
                      parent == r.levels[k + 1][PathNode(fin.i, k + 1) + 1]
                      sibling == r.siblings[k]
                      flag == r.pathIndices[k]
                  IN  /\ flag = 1 <=> PathNode(fin.i, k) % 2 = 1
                      /\ parent = IF flag = 1 THEN Poseidon2(sibling, node)
                                              ELSE Poseidon2(node, sibling)
                      /\ LevelHash(node, sibling, flag) = parent
                      /\ position(flag) = "left" <=> flag = 1
                      /\ position(flag) = "left" => parent = Poseidon2(sibling, node)
                      /\ position(flag) = "right" => parent = Poseidon2(node, sibling)

\* the proof of leaf 5 of a catalog of six has been taken: its flags are 1,0,1,0
C22_Witness ==
    /\ fout # <<>>
    /\ fin.n = 6 /\ fin.i = 5
    /\ fout[1].pathIndices = <<1, 0, 1, 0>>
    /\ fout[1].leaf # ZERO
    /\ position(fout[1].pathIndices[1]) = "left"

-----------------------------------------------------------------------------
(* SpecClaim: one witness of the claim circuits and the signals they output *)

\* the largest timestamp considered
MaxDate == 2

\* the timestamp at which the policy was bought
PolicyStart == 1

\* the price change between purchase and claim considered
PriceStep == 100

\* the invoice price of the specification's scenario
ScenarioPrice == 1000

TierBounds ==
    {T5_TIER1_MIN, T5_TIER1_MAX, T5_TIER2_MIN, T5_TIER2_MAX, T5_TIER3_MIN, T5_TIER3_MAX,
     T5_TIER4_MIN, T5_TIER4_MAX, T5_TIER5_MIN, T3_TIER1_END, T3_TIER2_END}

\* invoice prices: each tier bound and the prices next to it
PriceSamples == {ScenarioPrice} \cup UNION {{b - 1, b, b + 1} : b \in TierBounds}

\* the premium a buyer may have paid: one of either contract revision's tiers
PaidPremiums(purchaseCount) ==
    {TIER1_PREMIUM, TIER2_PREMIUM, TIER3_PREMIUM, TIER4_PREMIUM, TIER5_PREMIUM}
        \cup {VaultTierPremium(k, purchaseCount) : k \in 1..3}

\* the price drop considered, in tokens (vault) and in cents (oracle)
VaultDrop == 10

OracleDrop == 1000

\* the product the constructor adds to the dynamic-premium vault
DYNAMIC_PRODUCT_PRICE == 1049 * TOKEN_MULTIPLIER

\* the product the constructor adds to PriceProtectionOracle
ORACLE_PRODUCT_PRICE == 54720

ORACLE_COVERAGE_PERCENT == 2000

ORACLE_PREMIUM_PERCENT == 200

BASIS_POINTS == 10000

\* the price the product was bought at: its price when the contract is deployed
InitialPrice(r) == IF r = "oracle" THEN ORACLE_PRODUCT_PRICE ELSE DYNAMIC_PRODUCT_PRICE

PriceDrop(r) == IF r = "oracle" THEN OracleDrop ELSE VaultDrop * TOKEN_MULTIPLIER

\* the prices the price updater may set
NewPrices(r) == {InitialPrice(r), InitialPrice(r) - PriceDrop(r)}

\* the oracle's tree when product 1 costs price
BuildTreeAt(price) ==
    buildTree(generateLeafValues(Catalog(2), [CatalogPrices(2, 0) EXCEPT ![1] = price]))

\* the current prices the specifications below reach
KnownPrices ==
    {p + d : p \in PriceSamples, d \in {-PriceStep, 0, PriceStep}}
        \cup UNION {NewPrices(r) \cup {p - PriceDrop(r) : p \in NewPrices(r)} :
                       r \in {"dynamic", "merkle", "oracle"}}

\* their trees, built once
KnownTrees == [price \in KnownPrices |-> BuildTreeAt(price)]

TreeAt(price) ==
    IF price \in DOMAIN KnownTrees THEN KnownTrees[price] ELSE BuildTreeAt(price)

\* the oracle's proofs for product 1 (leaf 0) in these trees, computed once
KnownProofs == [price \in KnownPrices |-> getProof(KnownTrees[price], 0)]

ProofAt(price) ==
    IF price \in DOMAIN KnownProofs THEN KnownProofs[price]
    ELSE getProof(BuildTreeAt(price), 0)

\* the witness an honest claimant assembles from the purchase in f
HonestWitness(f) ==
    LET levels == TreeAt(f.currentPrice)
        proof == ProofAt(f.currentPrice)
        orderHash == Poseidon1(Keccak(100))
        productHash == Keccak(1)
        salt == FE(77)
    IN  [orderHash |-> orderHash,
         invoicePrice |-> f.invoicePrice,
         invoiceDate |-> f.invoiceDate,
         productHash |-> productHash,
         salt |-> salt,
         selectedTier |-> f.selectedTier,
         currentPrice |-> f.currentPrice,
         leafHash |-> levels[1][1],
         merkleProof |-> proof.siblings,
         leafIndex |-> proof.pathIndices,
         commitment |-> Poseidon6(orderHash, FE(f.invoicePrice), FE(f.invoiceDate),
                                  productHash, salt, FE(f.selectedTier)),
         commitmentV1 |-> Poseidon5(orderHash, FE(f.invoicePrice), FE(f.invoiceDate),
                                    productHash, salt),
         publicAsinHash |-> productHash,
         merkleRoot |-> getRoot(levels),
         policyStartDate |-> f.policyStartDate,
         paidPremium |-> f.paidPremium,
         purchaseCount |-> f.purchaseCount,
         policyId |-> 1]

InitClaim ==
    /\ \E invoicePrice \in PriceSamples, d \in {-PriceStep, 0, PriceStep},
          invoiceDate \in 0..MaxDate, policyStartDate \in {PolicyStart},
          selectedTier \in 1..5, purchaseCount \in {0} :
          \E paidPremium \in PaidPremiums(purchaseCount) :
              fin = [invoicePrice |-> invoicePrice,
                     currentPrice |-> invoicePrice + d,
                     invoiceDate |-> invoiceDate,
                     policyStartDate |-> policyStartDate,
                     selectedTier |-> selectedTier,
                     paidPremium |-> paidPremium,
                     purchaseCount |-> purchaseCount]
    /\ fout = <<>>
    /\ VaultIdle
    /\ OracleIdle

\* compute the witness: every circuit revision's output signals
ProveClaim ==
    /\ fout = <<>>
    /\ LET w == HonestWitness(fin)
       IN  fout' = <<[merkle |-> ClaimCircuitMerkle(w),
                      dynamic |-> ClaimCircuitDynamic(w),
                      v1 |-> ClaimCircuitV1(w),
                      tier5 |-> Tier5Valid(fin.invoicePrice),
                      correctTier5 |-> CorrectTier5(fin.invoicePrice),
                      tier3 |-> Tier3Valid(fin.invoicePrice),
                      correctTier3 |-> CorrectTier3(fin.invoicePrice)]>>
    /\ UNCHANGED <<fin, vaultVars, oracleVars>>

NextClaim == ProveClaim

SpecClaim == InitClaim /\ [][NextClaim]_vars

\* the specification's predicates on the inputs of SpecClaim
SpecPriceDrop == IF fin.invoicePrice > fin.currentPrice THEN fin.invoicePrice - fin.currentPrice ELSE 0

SpecValidClaim == fin.invoicePrice > fin.currentPrice /\ fin.invoiceDate <= fin.policyStartDate

\* C5: the payout output equals invoicePrice - currentPrice when validClaim and
\* validPremium both hold and 0 when either does not; it is never negative
\* (wrapped around).  Stated for the five-tier circuit's payoutAmount and the
\* three-tier circuit's priceDifference.
C5_Payout ==
    fout # <<>> =>
        /\ fout[1].merkle.payoutAmount =
              (IF fout[1].merkle.validClaim = 1 /\ fout[1].merkle.validPremium = 1
               THEN fin.invoicePrice - fin.currentPrice ELSE 0)
        /\ fout[1].merkle.payoutAmount >= 0
        /\ fout[1].dynamic.priceDifference =
              (IF fout[1].dynamic.validClaim = 1 /\ fout[1].dynamic.validPremium = 1
               THEN fin.invoicePrice - fin.currentPrice ELSE 0)
        /\ fout[1].dynamic.priceDifference >= 0

\* C6: validClaim is 1 exactly when invoicePrice > currentPrice and
\* invoiceDate <= policyStartDate, and 0 otherwise, in the five-tier circuit
\* and in the first circuit (where the date check is a constraint: no witness
\* satisfies the circuit when it fails).
C6_ValidClaim ==
    fout # <<>> =>
        /\ fout[1].merkle.validClaim = (IF SpecValidClaim THEN 1 ELSE 0)
        /\ (fout[1].v1.sat /\ fout[1].v1.valid_claim = 1) <=> SpecValidClaim

\* C6, the five-tier circuit alone
C6_ValidClaimMerkle ==
    fout # <<>> => fout[1].merkle.validClaim = (IF SpecValidClaim THEN 1 ELSE 0)

\* C8: every price of the legal domain satisfies exactly one tier's range
\* check, so correctTier is a single valid tier id, in the five-tier table
\* (1,000,000 to 10,000,000,000) and in the three-tier table (every price).
C8_TierExhaustive ==
    fout # <<>> =>
        /\ fin.invoicePrice >= T5_TIER1_MIN =>
              /\ Cardinality({k \in 1..5 : fout[1].tier5[k] = 1}) = 1
              /\ fout[1].correctTier5 \in 1..5
        /\ Cardinality({k \in 1..3 : fout[1].tier3[k] = 1}) = 1
        /\ fout[1].correctTier3 \in 1..3

-----------------------------------------------------------------------------
(* SpecPremium: the premium of a tier at a purchase count, as the contract  *)
(* charges it and as the circuit expects it                                  *)

\* the largest purchase count considered
MaxCount == 40

\* an invoice price of tier k of the three-tier table
TierPrice(k) ==
    CASE k = 1 -> T3_TIER1_END - 1 [] k = 2 -> T3_TIER1_END [] k = 3 -> T3_TIER2_END + 1

InitPremium ==
    /\ fin \in [tier : 1..3, n : 0..MaxCount]
    /\ fout = <<>>
    /\ VaultIdle
    /\ OracleIdle

\* the contract's premium for the tier at count n, and the circuit's outputs
\* for a policy bought at that premium with the correct tier
Quote ==
    /\ fout = <<>>
    /\ LET premium == VaultTierPremium(fin.tier, fin.n)
           w == HonestWitness([invoicePrice |-> TierPrice(fin.tier),
                               currentPrice |-> TierPrice(fin.tier) - PriceStep,
                               invoiceDate |-> 0,
                               policyStartDate |-> PolicyStart,
                               selectedTier |-> fin.tier,
                               paidPremium |-> premium,
                               purchaseCount |-> fin.n])
       IN  fout' = <<[vault |-> premium,
                      circuit |-> CircuitTierPremium(fin.tier, fin.n),
                      proof |-> ClaimCircuitDynamic(w)]>>
    /\ UNCHANGED <<fin, vaultVars, oracleVars>>

NextPremium == Quote

SpecPremium == InitPremium /\ [][NextPremium]_vars

\* C7: for every tier and every purchase count n the premium the circuit
\* expects equals the premium the contract charges in buyPolicy at count n,
\* so a policy sold with the correct tier obtains validPremium = 1.
C7_PremiumAgrees ==
    fout # <<>> =>
        /\ fout[1].circuit = QInt(fout[1].vault)
        /\ fout[1].proof.sat
        /\ fout[1].proof.validPremium = 1

-----------------------------------------------------------------------------
(* SpecCommit: generateCommitment on an invoice, and the circuit's           *)
(* commitment constraint on what it saved.                                   *)

\* "0x" + x.toString(16).padStart(64, "0"): the hexadecimal string of x
ToHex(x) == <<16>> \o x

\* x.toString(): the decimal string of x
ToDec(x) == <<10>> \o x

\* the field element the witness calculator reads from a string or a number
ParseSignal(s) == IF Head(s) \in {10, 16} THEN Tail(s) ELSE s

\* the tier generateCommitment selects for an invoice price
SelectTier(price) ==
    IF price < 500 * TOKEN_MULTIPLIER THEN 1
    ELSE IF price <= 1000 * TOKEN_MULTIPLIER THEN 2
    ELSE 3

generateCommitmentMut(invoice, nonce) ==
    LET selectedTier == SelectTier(invoice.price)
        orderHash == Poseidon1(Keccak(invoice.orderNumber))
        productHash == Keccak(invoice.asin)
        commitmentHash == Poseidon6(orderHash, FE(invoice.date), FE(invoice.price),
                                    productHash, nonce, FE(selectedTier))
    IN  [commitment |-> ToHex(commitmentHash),
         productHash |-> ToHex(productHash),
         productId |-> invoice.asin,
         invoice |-> invoice,
         invoicePrice |-> invoice.price,
         salt |-> ToDec(nonce),
         orderHash |-> ToDec(orderHash),
         selectedTier |-> selectedTier]

\* the commitment data saved for an invoice and the random nonce drawn
generateCommitment(invoice, nonce) ==
    LET selectedTier == SelectTier(invoice.price)
        orderHash == Poseidon1(Keccak(invoice.orderNumber))
        productHash == Keccak(invoice.asin)
        commitmentHash == Poseidon6(orderHash, FE(invoice.price), FE(invoice.date),
                                    productHash, nonce, FE(selectedTier))
    IN  [commitment |-> ToHex(commitmentHash),
         productHash |-> ToHex(productHash),
         productId |-> invoice.asin,
         invoice |-> invoice,
         invoicePrice |-> invoice.price,
         salt |-> ToDec(nonce),
         orderHash |-> ToDec(orderHash),
         selectedTier |-> selectedTier]

\* the circuit's commitment signals as read from the saved commitment data
CommitmentSignals(data) ==
    [orderHash |-> ParseSignal(data.orderHash),
     invoicePrice |-> data.invoicePrice,
     invoiceDate |-> data.invoice.date,
     productHash |-> ParseSignal(data.productHash),
     salt |-> ParseSignal(data.salt),
     selectedTier |-> data.selectedTier,
     commitment |-> ParseSignal(data.commitment)]

\* the invoices considered: prices around both tier boundaries of SelectTier
InvoicePrices == {T3_TIER1_END - 1, T3_TIER1_END, T3_TIER2_END, T3_TIER2_END + 1}

\* the largest order number, product and nonce considered
MaxKey == 2

InitCommit ==
    /\ \E orderNumber \in 1..MaxKey, asin \in 1..MaxKey, price \in InvoicePrices,
          date \in 0..MaxDate, nonce \in 1..MaxKey :
          fin = [invoice |-> [orderNumber |-> orderNumber, asin |-> asin,
                              price |-> price, date |-> date],
                 nonce |-> FE(nonce)]
    /\ fout = <<>>
    /\ VaultIdle
    /\ OracleIdle

GenerateCommitment ==
    /\ fout = <<>>
    /\ fout' = <<generateCommitment(fin.invoice, fin.nonce)>>
    /\ UNCHANGED <<fin, vaultVars, oracleVars>>

NextCommit == GenerateCommitment

SpecCommit == InitCommit /\ [][NextCommit]_vars

\* the field elements a tampered input may take
FieldSamples ==
    {FE(n) : n \in 0..(MaxDate + 3)} \cup {FE(p) : p \in InvoicePrices}
        \cup {Poseidon1(Keccak(k)) : k \in 1..(MaxKey + 1)}
        \cup {Keccak(k) : k \in 1..(MaxKey + 1)}

\* inputs with positions i and j exchanged
SwapInputs(inputs, i, j) == [inputs EXCEPT ![i] = inputs[j], ![j] = inputs[i]]

\* C9: the commitment generateCommitment saved satisfies the circuit's
\* commitment constraint on the saved (orderHash, invoicePrice, invoiceDate,
\* productHash, salt, tier) in that order; replacing any single input by a
\* different field element, or exchanging two unequal inputs, breaks it.
C9_Commitment ==
    fout # <<>> =>
        LET w == CommitmentSignals(fout[1])
            inputs == CommitmentInputs(w)
        IN  /\ CommitmentConstraint(w.commitment, inputs)
            /\ \A i \in 1..6 : \A v \in FieldSamples \ {inputs[i]} :
                   ~CommitmentConstraint(w.commitment, [inputs EXCEPT ![i] = v])
            /\ \A i \in 1..6, j \in 1..6 :
                   inputs[i] # inputs[j] =>
                       ~CommitmentConstraint(w.commitment, SwapInputs(inputs, i, j))

\* a tier-2 commitment that the constraint accepts and rejects with tier 1
C9_Witness ==
    /\ fout # <<>>
    /\ fin.invoice.price = T3_TIER1_END
    /\ LET w == CommitmentSignals(fout[1])
       IN  /\ w.selectedTier = 2
           /\ CommitmentConstraint(w.commitment, CommitmentInputs(w))
           /\ ~CommitmentConstraint(w.commitment,
                                    CommitmentInputs([w EXCEPT !.selectedTier = 1]))

-----------------------------------------------------------------------------
(* SpecVault: the settlement contract in its three revisions: the            *)
(* dynamic-premium InsuranceVault ("dynamic"), the merkle-root               *)
(* InsuranceVault ("merkle") and PriceProtectionOracle ("oracle").  A proof  *)
(* is modelled by the witness its prover holds.                              *)

\* the largest number of policies sold
MaxPolicies == 2

Buyers == {"alice", "bob"}

\* the deployer: priceUpdater / oracle
Owner == "owner"

\* address(0)
NoAddress == "0x0"

\* the tier an honest buyer selects for a price under revision r
PurchaseTier(r, price) == IF r = "merkle" THEN CorrectTier5(price) ELSE CorrectTier3(price)

\* a mapping's value for a key never written
ZeroPolicy(r) ==
    CASE r = "dynamic" ->
            [secretCommitment |-> ZERO, policyPurchaseDate |-> 0, paidPremium |-> 0,
             purchaseCountAtBuy |-> 0, alreadyClaimed |-> FALSE, buyer |-> NoAddress]
      [] r = "merkle" ->
            [secretCommitment |-> ZERO, policyPurchaseDate |-> 0, paidPremium |-> 0,
             alreadyClaimed |-> FALSE, buyer |-> NoAddress]
      [] OTHER ->
            [commitment |-> ZERO, asinHash |-> ZERO, purchaseDate |-> 0, premium |-> 0,
             maxCoverage |-> 0, claimed |-> FALSE, owner |-> NoAddress]

\* policies[policyId]
PolicyAt(policyId) ==
    IF policyId \in 1..Len(policies) THEN policies[policyId] ELSE ZeroPolicy(rev)

\* the message of the first require that fails, "" when all pass
FirstFailed(checks) ==
    LET bad == {i \in 1..Len(checks) : ~checks[i][1]}
    IN  IF bad = {} THEN "" ELSE checks[CHOOSE i \in bad : \A j \in bad : i <= j][2]

Outcome(op, caller, policyId, reason, amount) ==
    <<[op |-> op, policyId |-> policyId, ok |-> reason = "", reason |-> reason,
       amount |-> amount]>>

\* a reverted call: no state change
Revert(op, caller, policyId, reason) ==
    /\ last' = Outcome(op, caller, policyId, reason, 0)
    /\ UNCHANGED <<rev, policies, nextPolicyId, totalPoliciesSold, currentPrices,
                   priceMerkleRoot, rootPrices, paidOut, vaultBalance>>

\* the purchase an honest claimant proves, for the policy and the current price
Purchase(r, policy, price, currentPrice) ==
    [invoicePrice |-> price,
     currentPrice |-> currentPrice,
     invoiceDate |-> PolicyStart,
     policyStartDate |-> IF r = "oracle" THEN policy.purchaseDate
                         ELSE policy.policyPurchaseDate,
     selectedTier |-> PurchaseTier(r, price),
     paidPremium |-> IF r = "oracle" THEN policy.premium ELSE policy.paidPremium,
     purchaseCount |-> IF r = "dynamic" THEN policy.purchaseCountAtBuy ELSE 0]

\* the commitment of the purchase at the product's initial price
PurchaseCommitment(r) ==
    LET w == HonestWitness(Purchase(r, ZeroPolicy(r), InitialPrice(r), InitialPrice(r)))
    IN  IF r = "oracle" THEN w.commitmentV1 ELSE w.commitment

\* the commitments a buyer registers
Commitments(r) == {PurchaseCommitment(r)}

InitVault ==
    /\ rev \in {"dynamic", "merkle", "oracle"}
    /\ policies = <<>>
    /\ nextPolicyId = 1
    /\ totalPoliciesSold = 0
    /\ currentPrices = IF rev = "merkle" THEN <<>> ELSE <<InitialPrice(rev)>>
    /\ priceMerkleRoot = ZERO
    /\ rootPrices = <<>>
    /\ paidOut = <<>>
    /\ vaultBalance = 0
    /\ last = <<>>
    /\ FnIdle
    /\ OracleIdle

\* InsuranceVault.buyPolicy (dynamic-premium revision); funded: the buyer's
\* balance and allowance cover the premium
buyPolicy(caller, secretCommitment, premium, quotePolicyCount, funded, timestamp) ==
    /\ rev = "dynamic"
    /\ LET tier1 == VaultTierPremium(1, totalPoliciesSold)
           tier2 == VaultTierPremium(2, totalPoliciesSold)
           tier3 == VaultTierPremium(3, totalPoliciesSold)
           reason == FirstFailed(<<
               <<totalPoliciesSold <= quotePolicyCount + 10,
                 "Too many policies sold since quote">>,
               <<premium = tier1 \/ premium = tier2 \/ premium = tier3,
                 "Invalid premium tier">>,
               <<funded, "Premium transfer failed">> >>)
       IN  IF reason # ""
           THEN Revert("buyPolicy", caller, nextPolicyId, reason)
           ELSE /\ policies' = Append(policies,
                       [secretCommitment |-> secretCommitment,
                        policyPurchaseDate |-> timestamp,
                        paidPremium |-> premium,
                        purchaseCountAtBuy |-> totalPoliciesSold,
                        alreadyClaimed |-> FALSE,
                        buyer |-> caller])
                /\ nextPolicyId' = nextPolicyId + 1
                /\ totalPoliciesSold' = totalPoliciesSold + 1
                /\ vaultBalance' = vaultBalance + premium
                /\ last' = Outcome("buyPolicy", caller, nextPolicyId, "", premium)
                /\ paidOut' = Append(paidOut, <<>>)
                /\ UNCHANGED <<rev, currentPrices, priceMerkleRoot, rootPrices>>

\* InsuranceVault.buyPolicy (merkle-root revision)
buyPolicyMerkle(caller, secretCommitment, premium, funded, timestamp) ==
    /\ rev = "merkle"
    /\ LET reason == FirstFailed(<<
               <<premium \in {TIER1_PREMIUM, TIER2_PREMIUM, TIER3_PREMIUM, TIER4_PREMIUM,
                              TIER5_PREMIUM},
                 "Invalid premium tier">>,
               <<funded, "Premium transfer failed">> >>)
       IN  IF reason # ""
           THEN Revert("buyPolicy", caller, nextPolicyId, reason)
           ELSE /\ policies' = Append(policies,
                       [secretCommitment |-> secretCommitment,
                        policyPurchaseDate |-> timestamp,
                        paidPremium |-> premium,
                        alreadyClaimed |-> FALSE,
                        buyer |-> caller])
                /\ nextPolicyId' = nextPolicyId + 1
                /\ vaultBalance' = vaultBalance + premium
                /\ last' = Outcome("buyPolicy", caller, nextPolicyId, "", premium)
                /\ paidOut' = Append(paidOut, <<>>)
                /\ UNCHANGED <<rev, totalPoliciesSold, currentPrices, priceMerkleRoot,
                               rootPrices>>

\* PriceProtectionOracle.purchasePolicy; value: the ether sent with the call
purchasePolicy(caller, commitment, asin, value, timestamp) ==
    /\ rev = "oracle"
    /\ LET active == asin \in DOMAIN currentPrices
           productPrice == IF active THEN currentPrices[asin] ELSE 0
           premium == MulDiv(productPrice, ORACLE_PREMIUM_PERCENT, BASIS_POINTS)
           reason == FirstFailed(<<
               <<active, "Product not covered">>,
               <<value >= premium, "Insufficient premium">> >>)
       IN  IF reason # ""
           THEN Revert("purchasePolicy", caller, nextPolicyId, reason)
           ELSE /\ policies' = Append(policies,
                       [commitment |-> commitment,
                        asinHash |-> Keccak(asin),
                        purchaseDate |-> timestamp,
                        premium |-> premium,
                        maxCoverage |-> MulDiv(productPrice, ORACLE_COVERAGE_PERCENT,
                                               BASIS_POINTS),
                        claimed |-> FALSE,
                        owner |-> caller])
                /\ nextPolicyId' = nextPolicyId + 1
                \* the excess over the premium is refunded
                /\ vaultBalance' = vaultBalance + premium
                /\ last' = Outcome("purchasePolicy", caller, nextPolicyId, "", premium)
                /\ paidOut' = Append(paidOut, <<>>)
                /\ UNCHANGED <<rev, totalPoliciesSold, currentPrices, priceMerkleRoot,
                               rootPrices>>

\* InsuranceVault.fundContract
fundContract(caller, amount, funded) ==
    /\ rev = "dynamic"
    /\ IF ~funded
       THEN Revert("fundContract", caller, 0, "Funding transfer failed")
       ELSE /\ vaultBalance' = vaultBalance + amount
            /\ last' = Outcome("fundContract", caller, 0, "", amount)
            /\ UNCHANGED <<rev, policies, nextPolicyId, totalPoliciesSold, currentPrices,
                           priceMerkleRoot, rootPrices, paidOut>>

\* InsuranceVault.updatePrice (dynamic-premium revision)
updatePrice(caller, productId, newPrice) ==
    /\ rev = "dynamic"
    /\ LET reason == FirstFailed(<<
               <<caller = Owner, "Only price updater allowed">>,
               <<productId \in DOMAIN currentPrices, "Product not found">> >>)
       IN  IF reason # ""
           THEN Revert("updatePrice", caller, 0, reason)
           ELSE /\ currentPrices' = [currentPrices EXCEPT ![productId] = newPrice]
                /\ last' = Outcome("updatePrice", caller, 0, "", newPrice)
                /\ UNCHANGED <<rev, policies, nextPolicyId, totalPoliciesSold,
                               priceMerkleRoot, rootPrices, paidOut, vaultBalance>>

\* PriceProtectionOracle.updatePrice
updatePriceOracle(caller, asin, newPrice) ==
    /\ rev = "oracle"
    /\ LET reason == FirstFailed(<<
               <<caller = Owner, "Only oracle">>,
               <<asin \in DOMAIN currentPrices, "Product not found">> >>)
       IN  IF reason # ""
           THEN Revert("updatePrice", caller, 0, reason)
           ELSE /\ currentPrices' = [currentPrices EXCEPT ![asin] = newPrice]
                /\ last' = Outcome("updatePrice", caller, 0, "", newPrice)
                /\ UNCHANGED <<rev, policies, nextPolicyId, totalPoliciesSold,
                               priceMerkleRoot, rootPrices, paidOut, vaultBalance>>

\* updatePriceMerkleRoot without the onlyOracle modifier
updatePriceMerkleRootMut(caller, newRoot, prices) ==
    /\ rev = "merkle"
    /\ priceMerkleRoot' = newRoot
    /\ rootPrices' = prices
    /\ last' = Outcome("updatePriceMerkleRoot", caller, 0, "", 0)
    /\ UNCHANGED <<rev, policies, nextPolicyId, totalPoliciesSold, currentPrices,
                   paidOut, vaultBalance>>

\* InsuranceVault.updatePriceMerkleRoot; prices: the price map the caller
\* built newRoot from
updatePriceMerkleRoot(caller, newRoot, prices) ==
    /\ rev = "merkle"
    /\ IF caller # Owner
       THEN Revert("updatePriceMerkleRoot", caller, 0, "Only oracle allowed")
       ELSE /\ priceMerkleRoot' = newRoot
            /\ rootPrices' = prices
            /\ last' = Outcome("updatePriceMerkleRoot", caller, 0, "", 0)
            /\ UNCHANGED <<rev, policies, nextPolicyId, totalPoliciesSold, currentPrices,
                           paidOut, vaultBalance>>

\* the public signals of a proof of the three-tier circuit: outputs, then the
\* public inputs in the order main declares them
PublicSignalsDynamic(w) ==
    LET c == ClaimCircuitDynamic(w)
    IN  <<c.validClaim, c.priceDifference, c.validPremium, w.commitment, w.invoicePrice,
          w.productHash, w.policyStartDate, w.currentPrice, w.policyId, w.paidPremium,
          w.purchaseCount>>

\* the five-tier circuit's main declares no public input: the outputs only
PublicSignalsMerkle(w) ==
    LET c == ClaimCircuitMerkle(w)
    IN  <<c.validClaim, c.validPremium, c.validPayout, c.payoutAmount>>

\* the six signals PriceProtectionOracle.claimProtection reads
PublicSignalsV1(w) ==
    LET c == ClaimCircuitV1(w)
    IN  <<w.commitmentV1, w.publicAsinHash, w.policyStartDate, w.currentPrice, w.policyId,
          c.price_difference>>

\* Groth16Verifier.verifyProof: accepts exactly the public signals of a
\* witness that satisfies the circuit
VerifyProof(r, proof, publicInputs) ==
    CASE r = "dynamic" ->
            ClaimCircuitDynamic(proof).sat /\ publicInputs = PublicSignalsDynamic(proof)
      [] r = "merkle" ->
            ClaimCircuitMerkle(proof).sat /\ publicInputs = PublicSignalsMerkle(proof)
      [] OTHER ->
            ClaimCircuitV1(proof).sat /\ publicInputs = PublicSignalsV1(proof)

\* ERC20 transfer / payable.transfer out of the contract
TransferOk(amount) == amount >= 0 /\ amount <= vaultBalance

RequireNotClaimedMut(policy) == TRUE

\* require(!policy.alreadyClaimed, "Already claimed")
RequireNotClaimed(policy) ==
    IF rev = "oracle" THEN ~policy.claimed ELSE ~policy.alreadyClaimed

Pay(op, caller, policyId, amount) ==
    /\ vaultBalance' = vaultBalance - amount
    /\ paidOut' = [paidOut EXCEPT ![policyId] = Append(@, amount)]
    /\ last' = Outcome(op, caller, policyId, "", amount)
    /\ UNCHANGED <<rev, nextPolicyId, totalPoliciesSold, currentPrices, priceMerkleRoot,
                   rootPrices>>

\* InsuranceVault.claimPayout (dynamic-premium revision); publicInputs[k + 1]
\* is the contract's publicInputs[k]
claimPayout(caller, policyId, productId, purchasePrice, proof, publicInputs) ==
    /\ rev = "dynamic"
    /\ LET policy == PolicyAt(policyId)
           currentPrice == IF productId \in DOMAIN currentPrices
                           THEN currentPrices[productId] ELSE 0
           priceDifference == IF purchasePrice > currentPrice
                              THEN purchasePrice - currentPrice ELSE 0
           reason == FirstFailed(<<
               <<RequireNotClaimed(policy), "Already claimed">>,
               <<policy.buyer = caller, "Not your policy">>,
               <<policy.secretCommitment = publicInputs[4], "Wrong commitment">>,
               <<purchasePrice = publicInputs[5], "Purchase price doesn't match proof">>,
               <<Keccak(productId) = publicInputs[6], "Product doesn't match proof">>,
               <<policy.policyPurchaseDate = publicInputs[7], "Wrong policy date">>,
               <<currentPrice = publicInputs[8], "Wrong current price">>,
               <<policyId = publicInputs[9], "Wrong policy ID">>,
               <<policy.paidPremium = publicInputs[10], "Premium mismatch">>,
               <<policy.purchaseCountAtBuy = publicInputs[11], "Count mismatch">>,
               <<VerifyProof(rev, proof, publicInputs), "Invalid proof">>,
               <<publicInputs[1] = 1, "Claim not valid - no price drop">>,
               <<publicInputs[3] = 1, "Premium validation failed">>,
               <<publicInputs[2] = priceDifference, "Price difference mismatch">>,
               <<TransferOk(priceDifference), "Payout transfer failed">> >>)
       IN  IF reason # ""
           THEN Revert("claimPayout", caller, policyId, reason)
           ELSE /\ policies' = [policies EXCEPT ![policyId].alreadyClaimed = TRUE]
                /\ Pay("claimPayout", caller, policyId, priceDifference)

\* InsuranceVault.claimPayout (merkle-root revision)
claimPayoutMerkle(caller, policyId, commitment, merkleRoot, policyStartDate, paidPremium, proof, publicInputs) ==
    /\ rev = "merkle"
    /\ LET policy == PolicyAt(policyId)
           payoutAmount == publicInputs[4]
           reason == FirstFailed(<<
               <<policy.buyer # NoAddress, "Policy does not exist">>,
               <<RequireNotClaimed(policy), "Already claimed">>,
               <<policy.buyer = caller, "Not your policy">>,
               <<policy.secretCommitment = commitment, "Wrong commitment">>,
               <<priceMerkleRoot = merkleRoot, "Wrong merkle root">>,
               <<policy.policyPurchaseDate = policyStartDate, "Wrong date">>,
               <<policy.paidPremium = paidPremium, "Wrong premium">>,
               <<VerifyProof(rev, proof, publicInputs), "Invalid proof">>,
               <<publicInputs[1] = 1, "Claim not valid">>,
               <<publicInputs[2] = 1, "Premium not valid">>,
               <<publicInputs[3] = 1, "Payout not valid">>,
               <<TransferOk(payoutAmount), "Transfer failed">> >>)
       IN  IF reason # ""
           THEN Revert("claimPayout", caller, policyId, reason)
           ELSE /\ policies' = [policies EXCEPT ![policyId].alreadyClaimed = TRUE]
                /\ Pay("claimPayout", caller, policyId, payoutAmount)

\* PriceProtectionOracle.claimProtection
claimProtection(caller, policyId, proof, pubSignals) ==
    /\ rev = "oracle"
    /\ LET policy == PolicyAt(policyId)
           currentPrice == IF policy.asinHash = Keccak(1) THEN currentPrices[1] ELSE 0
           priceDrop == pubSignals[6]
           payout == IF priceDrop > policy.maxCoverage THEN policy.maxCoverage
                     ELSE priceDrop
           reason == FirstFailed(<<
               <<RequireNotClaimed(policy), "Already claimed">>,
               <<policy.owner = caller, "Not policy owner">>,
               <<policy.commitment = pubSignals[1], "Invalid commitment">>,
               <<policy.asinHash = pubSignals[2], "Invalid ASIN">>,
               <<policy.purchaseDate = pubSignals[3], "Invalid date">>,
               <<currentPrice = pubSignals[4], "Price mismatch">>,
               <<policyId = pubSignals[5], "Policy ID mismatch">>,
               <<VerifyProof(rev, proof, pubSignals), "Invalid proof">>,
               <<TransferOk(payout), "Transfer failed">> >>)
       IN  IF reason # ""
           THEN Revert("claimProtection", caller, policyId, reason)
           ELSE /\ policies' = [policies EXCEPT ![policyId].claimed = TRUE]
                /\ Pay("claimProtection", caller, policyId, payout)

\* The proofs a claimant may submit for a policy: one from the purchase's
\* own witness, one from a witness with a higher invoice price (and the
\* commitment of that price), one made for another price and presented with
\* altered signals.
WitnessFor(policyId, price, currentPrice) ==
    [HonestWitness(Purchase(rev, PolicyAt(policyId), price, currentPrice))
        EXCEPT !.policyId = policyId]

DynamicAttempts(policyId) ==
    LET cur == currentPrices[1]
        honest == WitnessFor(policyId, InitialPrice(rev), cur)
        inflated == WitnessFor(policyId, InitialPrice(rev) + PriceDrop(rev), cur)
        stale == WitnessFor(policyId, InitialPrice(rev), cur - PriceDrop(rev))
    IN  {[purchasePrice |-> honest.invoicePrice, proof |-> honest,
          publicInputs |-> PublicSignalsDynamic(honest)],
         [purchasePrice |-> inflated.invoicePrice, proof |-> inflated,
          publicInputs |-> PublicSignalsDynamic(inflated)],
         [purchasePrice |-> stale.invoicePrice, proof |-> stale,
          publicInputs |-> [PublicSignalsDynamic(stale) EXCEPT ![8] = cur]]}

MerkleAttempts(policyId) ==
    LET policy == PolicyAt(policyId)
        cur == IF rootPrices = <<>> THEN InitialPrice(rev) ELSE rootPrices[1]
        honest == WitnessFor(policyId, InitialPrice(rev), cur)
        inflated == WitnessFor(policyId, InitialPrice(rev) + PriceDrop(rev), cur)
    IN  {[commitment |-> honest.commitment, merkleRoot |-> honest.merkleRoot,
          policyStartDate |-> honest.policyStartDate, paidPremium |-> honest.paidPremium,
          proof |-> honest, publicInputs |-> PublicSignalsMerkle(honest)],
         [commitment |-> policy.secretCommitment, merkleRoot |-> priceMerkleRoot,
          policyStartDate |-> policy.policyPurchaseDate,
          paidPremium |-> policy.paidPremium,
          proof |-> inflated, publicInputs |-> PublicSignalsMerkle(inflated)],
         [commitment |-> policy.secretCommitment, merkleRoot |-> priceMerkleRoot,
          policyStartDate |-> policy.policyPurchaseDate,
          paidPremium |-> policy.paidPremium,
          proof |-> honest, publicInputs |-> <<1, 1, 1, PriceDrop(rev)>>]}

OracleAttempts(policyId) ==
    LET cur == currentPrices[1]
        honest == WitnessFor(policyId, InitialPrice(rev), cur)
        inflated == WitnessFor(policyId, InitialPrice(rev) + PriceDrop(rev), cur)
        stale == WitnessFor(policyId, InitialPrice(rev), cur - PriceDrop(rev))
    IN  {[proof |-> honest, pubSignals |-> PublicSignalsV1(honest)],
         [proof |-> inflated, pubSignals |-> PublicSignalsV1(inflated)],
         [proof |-> stale, pubSignals |-> [PublicSignalsV1(stale) EXCEPT ![4] = cur]]}

CanBuy == Len(policies) < MaxPolicies

BuyDynamic ==
    /\ rev = "dynamic"
    /\ CanBuy
    /\ \E caller \in Buyers, c \in Commitments("dynamic"), funded \in BOOLEAN,
          premium \in {VaultTierPremium(3, totalPoliciesSold), 0} :
          buyPolicy(caller, c, premium, totalPoliciesSold, funded, PolicyStart)
    /\ UNCHANGED <<fnVars, oracleVars>>

BuyMerkle ==
    /\ rev = "merkle"
    /\ CanBuy
    /\ \E caller \in Buyers, c \in Commitments("merkle"), funded \in BOOLEAN,
          premium \in {TIER4_PREMIUM, 0} :
          buyPolicyMerkle(caller, c, premium, funded, PolicyStart)
    /\ UNCHANGED <<fnVars, oracleVars>>

BuyOracle ==
    /\ rev = "oracle"
    /\ CanBuy
    /\ \E caller \in Buyers, c \in Commitments("oracle"), asin \in 1..2, excess \in {-1, 1} :
          purchasePolicy(caller, c, asin,
                         MulDiv(ORACLE_PRODUCT_PRICE, ORACLE_PREMIUM_PERCENT, BASIS_POINTS)
                             + excess,
                         PolicyStart)
    /\ UNCHANGED <<fnVars, oracleVars>>

Fund ==
    /\ rev = "dynamic"
    /\ vaultBalance < PriceDrop("dynamic")
    /\ \E funded \in BOOLEAN : fundContract(Owner, PriceDrop("dynamic"), funded)
    /\ UNCHANGED <<fnVars, oracleVars>>

UpdateDynamic ==
    /\ rev = "dynamic"
    /\ \E caller \in {Owner, "alice"}, productId \in 1..2, newPrice \in NewPrices("dynamic") :
           updatePrice(caller, productId, newPrice)
    /\ UNCHANGED <<fnVars, oracleVars>>

UpdateOracle ==
    /\ rev = "oracle"
    /\ \E caller \in {Owner, "alice"}, asin \in 1..2, newPrice \in NewPrices("oracle") :
           updatePriceOracle(caller, asin, newPrice)
    /\ UNCHANGED <<fnVars, oracleVars>>

UpdateMerkleRoot ==
    /\ rev = "merkle"
    /\ \E caller \in {Owner, "alice"}, p \in NewPrices("merkle") :
           updatePriceMerkleRoot(caller, getRoot(TreeAt(p)), <<p>>)
    /\ UNCHANGED <<fnVars, oracleVars>>

ClaimDynamic ==
    /\ rev = "dynamic"
    /\ \E policyId \in 1..MaxPolicies :
           \E a \in DynamicAttempts(policyId), caller \in Buyers :
               claimPayout(caller, policyId, 1, a.purchasePrice, a.proof, a.publicInputs)
    /\ UNCHANGED <<fnVars, oracleVars>>

ClaimMerkle ==
    /\ rev = "merkle"
    /\ \E policyId \in 1..MaxPolicies :
           \E a \in MerkleAttempts(policyId), caller \in Buyers :
               claimPayoutMerkle(caller, policyId, a.commitment, a.merkleRoot,
                                 a.policyStartDate, a.paidPremium, a.proof, a.publicInputs)
    /\ UNCHANGED <<fnVars, oracleVars>>

ClaimOracle ==
    /\ rev = "oracle"
    /\ \E policyId \in 1..MaxPolicies :
           \E a \in OracleAttempts(policyId), caller \in Buyers :
               claimProtection(caller, policyId, a.proof, a.pubSignals)
    /\ UNCHANGED <<fnVars, oracleVars>>



NextVault ==
    \/ BuyDynamic
    \/ BuyMerkle
    \/ BuyOracle
    \/ Fund
    \/ UpdateDynamic
    \/ UpdateOracle
    \/ UpdateMerkleRoot
    \/ ClaimDynamic
    \/ ClaimMerkle
    \/ ClaimOracle

SpecVault == InitVault /\ [][NextVault]_vars

IsClaimed(policy) ==
    IF "claimed" \in DOMAIN policy THEN policy.claimed ELSE policy.alreadyClaimed

SetClaimed(policy) ==
    IF "claimed" \in DOMAIN policy THEN [policy EXCEPT !.claimed = TRUE]
    ELSE [policy EXCEPT !.alreadyClaimed = TRUE]

ClaimOps == {"claimPayout", "claimProtection"}

\* the step is a call of the claim function for policy id
ClaimCall(id) == last' # last /\ last'[1].op \in ClaimOps /\ last'[1].policyId = id

\* C1: in every step and for every policy: no policy is deleted; a policy's
\* record changes only by its claimed flag going from false to true, in a
\* successful claim of that policy; a claim of a policy already claimed
\* reverts with "Already claimed" and transfers nothing; and no policy is
\* ever paid more than once.
C1_ClaimedOnce ==
    [][/\ Len(policies') >= Len(policies)
       /\ \A id \in 1..Len(policies) :
              /\ policies'[id] # policies[id] =>
                     /\ ~IsClaimed(policies[id])
                     /\ policies'[id] = SetClaimed(policies[id])
                     /\ ClaimCall(id)
                     /\ last'[1].ok
              /\ (ClaimCall(id) /\ last'[1].ok) =>
                     /\ ~IsClaimed(policies[id])
                     /\ IsClaimed(policies'[id])
              /\ (ClaimCall(id) /\ IsClaimed(policies[id])) =>
                     /\ ~last'[1].ok
                     /\ last'[1].reason = "Already claimed"
                     /\ paidOut' = paidOut
                     /\ vaultBalance' = vaultBalance
       /\ \A id \in 1..Len(policies') : Len(paidOut'[id]) <= 1]_vars

\* a policy paid once, and a later claim of it reverted with "Already claimed"
C1_Witness ==
    /\ last # <<>>
    /\ last[1].op \in ClaimOps
    /\ ~last[1].ok
    /\ last[1].reason = "Already claimed"
    /\ IsClaimed(policies[last[1].policyId])
    /\ Len(paidOut[last[1].policyId]) = 1
    /\ Len(policies) = MaxPolicies

\* the oracle's current price of the product, 0 when it has published none
OraclePrice ==
    IF rev = "merkle" THEN (IF rootPrices = <<>> THEN 0 ELSE rootPrices[1])
    ELSE currentPrices[1]

\* C2: a claim of either InsuranceVault revision is paid only if the
\* policy's stored commitment is the purchase's, the purchase's invoice price
\* is above the oracle's current price and its tier's premium was paid, and
\* the amount paid is the invoice price less the current price.
C2_Rederived ==
    (last # <<>> /\ last[1].op = "claimPayout" /\ last[1].ok) =>
        LET policy == policies[last[1].policyId]
            invoicePrice == InitialPrice(rev)
        IN  /\ policy.secretCommitment = PurchaseCommitment(rev)
            /\ rootPrices # <<>> \/ rev = "dynamic"
            /\ invoicePrice > OraclePrice
            /\ policy.paidPremium =
                   (IF rev = "merkle" THEN CircuitExpectedPremium5(CorrectTier5(invoicePrice))
                    ELSE VaultTierPremium(CorrectTier3(invoicePrice),
                                          policy.purchaseCountAtBuy))
            /\ last[1].amount = invoicePrice - OraclePrice

\* the same for the dynamic-premium revision alone
C2_RederivedDynamic == rev = "dynamic" => C2_Rederived

-----------------------------------------------------------------------------
(* SpecOracle: MinimalPriceOracle, initialized and with a contract, serving  *)
(* mutation requests.  A request runs its synchronous part (set the prices,  *)
(* rebuild the tree, save the snapshot) in one step and then awaits the      *)
(* ledger write, whose awaits are separate steps that interleave with other  *)
(* requests.                                                                 *)

\* the number of products in products.json
OracleProducts == 2

\* the largest number of mutation requests
MaxRequests == 2

\* the largest number of failed RPC calls
MaxFailures == 1

\* the price a set-price request sets
SalePrice == 90

\* retryWithBackoff's maxAttempts
maxAttempts == 3

\* products.json: each product's basePrice
basePrices == CatalogPrices(OracleProducts, 0)

\* the tree and the leaf hash of every product of the catalog
buildMerkleTreeFromProducts(products, priceMap) ==
    [levels |-> buildTree(generateLeafValues(products, priceMap)),
     leafHashMap |-> [id \in 1..Len(products) |->
                         calculateLeafHash(calculateProductHash(products[id]),
                                           priceMap[products[id]])]]

\* the tree and the hash maps rebuildTree keeps
rebuildTree(priceMap) == buildMerkleTreeFromProducts(Catalog(OracleProducts), priceMap)

\* the snapshot saveTreeToFile writes
saveTreeToFile(tree, priceMap) ==
    [leaves |-> tree.levels[1],
     root |-> getRoot(tree.levels),
     leafHashMap |-> tree.leafHashMap,
     currentPrices |-> priceMap]

RECURSIVE PadTo4(_, _)
PadTo4(s, v) == IF Len(s) < LEVELS THEN PadTo4(Append(s, v), v) ELSE s

\* productId.toUpperCase().trim(): the id k is the catalog's spelling of
\* product k, the id -k another spelling of it (lower case, or with blanks)
normalizedProductId(productId) == IF productId < 0 THEN 0 - productId ELSE productId

\* products.findIndex((p) => p.id === id), 0-based, -1 when there is none
findIndex(products, id) ==
    IF \E k \in 1..Len(products) : products[k] = id
    THEN (CHOOSE k \in 1..Len(products) : products[k] = id) - 1
    ELSE 0 - 1

\* getMerkleProof: error is empty when a proof is returned
getMerkleProof(products, tree, priceMap, productId) ==
    LET id == normalizedProductId(productId)
        productIndex == findIndex(products, id)
        proof == getProof(tree.levels, productIndex)
    IN  IF productIndex = 0 - 1 THEN [error |-> <<"not found">>]
        ELSE IF Len(proof.siblings) > LEVELS THEN [error |-> <<"tree depth">>]
        ELSE [error |-> <<>>,
              leaf |-> tree.leafHashMap[id],
              currentPrice |-> priceMap[id],
              siblings |-> PadTo4(proof.siblings, ZERO),
              pathIndices |-> PadTo4(proof.pathIndices, 0),
              root |-> getRoot(tree.levels)]

currentPricesSetMut(priceMap, productId, price) == priceMap

\* this.currentPrices.set(productId, price)
currentPricesSet(priceMap, productId, price) ==
    [id \in DOMAIN priceMap \cup {productId} |-> IF id = productId THEN price ELSE priceMap[id]]

\* Math.floor(currentPrice * (1 - percentage / 100)) for every product
DroppedPrices(priceMap, percentage) ==
    [id \in DOMAIN priceMap |-> (priceMap[id] * (100 - percentage)) \div 100]

InitOracle ==
    /\ oPrices = basePrices
    /\ oTree = rebuildTree(basePrices)
    /\ oFile = saveTreeToFile(rebuildTree(basePrices), basePrices)
    /\ chainRoot = getRoot(rebuildTree(basePrices).levels)
    /\ reqs = <<>>
    /\ olog = [writes |-> <<>>, failures |-> 0, last |-> <<>>]
    /\ FnIdle
    /\ VaultIdle

\* updateTreeAndChain up to its first await: rebuild, save, and enter
\* updateMerkleRootOnChain with the new root
Mutation(op, productId, price, priceMap) ==
    /\ Len(reqs) < MaxRequests
    /\ \E tree \in {rebuildTree(priceMap)} :
           /\ oPrices' = priceMap
           /\ oTree' = tree
           /\ oFile' = saveTreeToFile(tree, priceMap)
           /\ reqs' = Append(reqs, [pc |-> "estimateGas",
                                    rootHex |-> ToHex(getRoot(tree.levels)),
                                    attempt |-> 1])
    /\ olog' = [olog EXCEPT !.last =
                   <<[op |-> op, productId |-> productId, price |-> price,
                      oldPrice |-> IF productId = 0 THEN 0 ELSE oPrices[productId],
                      oldLeaf |-> IF productId = 0 THEN ZERO
                                  ELSE oTree.leafHashMap[productId],
                      oldRoot |-> getRoot(oTree.levels)]>>]
    /\ UNCHANGED <<chainRoot, fnVars, vaultVars>>

setProductPrice(productId, price) ==
    Mutation("setProductPrice", productId, price,
             currentPricesSet(oPrices, productId, price))

dropAllPrices(percentage) ==
    Mutation("dropAllPrices", 0, 0, DroppedPrices(oPrices, percentage))

\* also POST /reset-prices: resetAllPrices(), then updateMerkleRoot()
forceRebuildFromBase == Mutation("forceRebuildFromBase", 0, 0, basePrices)

SetProductPrice ==
    \E productId \in 1..OracleProducts : setProductPrice(productId, SalePrice)

DropAllPrices == dropAllPrices(10)

ForceRebuildFromBase == forceRebuildFromBase

Advance(r, pc) ==
    /\ reqs' = [reqs EXCEPT ![r].pc = pc]
    /\ UNCHANGED <<oPrices, oTree, oFile, fnVars, vaultVars>>

\* await this.contract.updatePriceMerkleRoot.estimateGas(rootHex)
EstimateGas ==
    \E r \in 1..Len(reqs) :
        /\ reqs[r].pc = "estimateGas"
        /\ Advance(r, "send")
        /\ UNCHANGED <<chainRoot, olog>>

\* await this.contract.updatePriceMerkleRoot(rootHex, ...): the transaction
\* takes the signer's next nonce, so the ledger applies writes in this order
SendTransaction ==
    \E r \in 1..Len(reqs) :
        /\ reqs[r].pc = "send"
        /\ Advance(r, "wait")
        /\ chainRoot' = ParseSignal(reqs[r].rootHex)
        /\ olog' = [olog EXCEPT !.writes = Append(@, r)]

\* await tx.wait()
TxWait ==
    \E r \in 1..Len(reqs) :
        /\ reqs[r].pc = "wait"
        /\ Advance(r, "done")
        /\ UNCHANGED <<chainRoot, olog>>

\* an RPC call of the attempt throws: retryWithBackoff sleeps and retries,
\* or rethrows after maxAttempts
RpcFailure ==
    \E r \in 1..Len(reqs) :
        /\ reqs[r].pc \in {"estimateGas", "send"}
        /\ olog.failures < MaxFailures
        /\ Advance(r, IF reqs[r].attempt < maxAttempts THEN "delay" ELSE "failed")
        /\ olog' = [olog EXCEPT !.failures = @ + 1]
        /\ UNCHANGED chainRoot

\* the delay of retryWithBackoff elapses
Retry ==
    \E r \in 1..Len(reqs) :
        /\ reqs[r].pc = "delay"
        /\ reqs' = [reqs EXCEPT ![r].pc = "estimateGas", ![r].attempt = @ + 1]
        /\ UNCHANGED <<oPrices, oTree, oFile, chainRoot, olog, fnVars, vaultVars>>

NextOracle ==
    \/ SetProductPrice
    \/ DropAllPrices
    \/ ForceRebuildFromBase
    \/ EstimateGas
    \/ SendTransaction
    \/ TxWait
    \/ RpcFailure
    \/ Retry

SpecOracle == InitOracle /\ [][NextOracle]_vars

\* C4: after setProductPrice(id, p) with p different from the product's
\* price, the product's leaf and the root differ from those before the call,
\* and the proof getMerkleProof(id) returns verifies against the new root and
\* not against the root from before the call.
C4_SetPrice ==
    (/\ olog.last # <<>>
     /\ olog.last[1].op = "setProductPrice"
     /\ olog.last[1].price # olog.last[1].oldPrice) =>
        LET l == olog.last[1]
            resp == getMerkleProof(Catalog(OracleProducts), oTree, oPrices, l.productId)
        IN  /\ resp.currentPrice = l.price
            /\ resp.leaf # l.oldLeaf
            /\ resp.root # l.oldRoot
            /\ MerkleTreeInclusionProof(resp.leaf, resp.pathIndices, resp.siblings,
                                        resp.root)
            /\ ~MerkleTreeInclusionProof(resp.leaf, resp.pathIndices, resp.siblings,
                                         l.oldRoot)

\* the second product's price was set to a new value after an earlier mutation
C4_Witness ==
    /\ olog.last # <<>>
    /\ olog.last[1].op = "setProductPrice"
    /\ olog.last[1].productId = 2
    /\ olog.last[1].price # olog.last[1].oldPrice
    /\ oPrices[2] = olog.last[1].price
    /\ Len(reqs) = 2
    /\ getMerkleProof(Catalog(OracleProducts), oTree, oPrices, 2).root = getRoot(oTree.levels)

\* every request issued has finished with a successful ledger write
AllFinished == Len(reqs) > 0 /\ \A r \in 1..Len(reqs) : reqs[r].pc = "done"

\* C10: mutation requests are serialized: the ledger writes are applied in
\* the order of the local rebuilds, and when every request has finished with
\* a successful ledger write the ledger root equals the local root.
C10_Serialized ==
    /\ \A i \in 1..Len(olog.writes), j \in 1..Len(olog.writes) :
           i < j => olog.writes[i] <= olog.writes[j]
    /\ AllFinished => chainRoot = getRoot(oTree.levels)

-----------------------------------------------------------------------------
(* SpecStore: OracleStateManager on merkle-tree.json.  The file is absent,   *)
(* <<>>, or present, <<text>>, where text is the sequence of JSON tokens     *)
(* written so far.  writeFileSync truncates the file when it opens it and    *)
(* then writes the text; the process may stop between two writes.            *)

\* the latest timestamp of a snapshot
MaxTime == 2

\* the percentage of a price drop between two snapshots
StoreDrop == 10

\* the number of leaves of a snapshot written under a smaller capacity
ShortLeaves == 8

\* Array.from(map.entries()): the [key, value] pairs of a Map
Entries(map) == [k \in 1..Len(map) |-> <<k, map[k]>>]

\* new Map(entries)
MapOf(entries) == [k \in 1..Len(entries) |-> entries[k][2]]

\* the TreeData saveTreeToFile hands to save
TreeData(tree, priceMap, timestamp) ==
    [leaves |-> tree.levels[1],
     root |-> getRoot(tree.levels),
     productHashMap |-> Entries([id \in 1..Len(priceMap) |-> calculateProductHash(id)]),
     leafHashMap |-> Entries(tree.leafHashMap),
     currentPrices |-> Entries(priceMap),
     timestamp |-> timestamp]

JsonToken(t, v) == [t |-> t, v |-> v]

JsonString(s) == JsonToken("string", s)

JsonNumberMut(n) == JsonToken("number", (n \div 10) * 10)

\* a finite number is written as its digits (a non-finite one as null)
JsonNumber(n) == JsonToken("number", n)

JsonArray(items) == JsonToken("array", items)

\* a [string, string][] member
JsonStringPairs(entries) ==
    JsonArray([k \in 1..Len(entries) |->
                  JsonArray(<<JsonString(entries[k][1]), JsonString(entries[k][2])>>)])

\* a [string, number][] member
JsonNumberPairs(entries) ==
    JsonArray([k \in 1..Len(entries) |->
                  JsonArray(<<JsonString(entries[k][1]), JsonNumber(entries[k][2])>>)])

\* JSON.stringify(treeData, null, 2): the members in the order of the object
\* literal, between the braces
JSONstringify(treeData) ==
    <<JsonToken("{", <<>>),
      JsonToken("key", "leaves"),
      JsonArray([k \in 1..Len(treeData.leaves) |-> JsonString(treeData.leaves[k])]),
      JsonToken("key", "root"), JsonString(treeData.root),
      JsonToken("key", "productHashMap"), JsonStringPairs(treeData.productHashMap),
      JsonToken("key", "leafHashMap"), JsonStringPairs(treeData.leafHashMap),
      JsonToken("key", "currentPrices"), JsonNumberPairs(treeData.currentPrices),
      JsonToken("key", "timestamp"), JsonString(treeData.timestamp),
      JsonToken("}", <<>>)>>

\* the value a JSON token stands for
RECURSIVE JsonValue(_)
JsonValue(token) ==
    IF token.t = "array"
    THEN [k \in 1..Len(token.v) |-> JsonValue(token.v[k])]
    ELSE token.v

\* the text is an object: braces around alternating keys and values
WellFormed(text) ==
    /\ Len(text) >= 2
    /\ Len(text) % 2 = 0
    /\ text[1].t = "{"
    /\ text[Len(text)].t = "}"
    /\ \A k \in 2..(Len(text) - 1) :
           IF k % 2 = 0 THEN text[k].t = "key"
                        ELSE text[k].t \in {"string", "number", "null", "array"}

\* JSON.parse(text): <<>> when it throws, else <<the object>>; of a repeated
\* key the last member counts
JSONparse(text) ==
    IF ~WellFormed(text)
    THEN <<>>
    ELSE LET keyAt == {k \in 2..(Len(text) - 1) : k % 2 = 0}
             lastOf(name) == CHOOSE k \in keyAt :
                                 /\ text[k].v = name
                                 /\ \A j \in keyAt : text[j].v = name => j <= k
         IN  <<[name \in {text[k].v : k \in keyAt} |-> JsonValue(text[lastOf(name) + 1])]>>

\* OracleStateManager.save: the file once writeFileSync has returned
save(treeData) == <<JSONstringify(treeData)>>

\* OracleStateManager.load: <<>> for null, else <<data>>
load(file) ==
    IF file = <<>>
    THEN <<>>
    ELSE LET parsed == JSONparse(file[1])
         IN  IF parsed = <<>>
             THEN <<>>
             ELSE LET data == parsed[1]
                  IN  IF \/ "tree" \in DOMAIN data
                         \/ "leaves" \notin DOMAIN data
                         \/ Len(data.leaves) # LEAVES
                      THEN <<>>
                      ELSE <<data>>

\* the price maps of the snapshots considered
StorePrices == {basePrices, DroppedPrices(basePrices, StoreDrop)}

Snapshots ==
    {TreeData(rebuildTree(priceMap), priceMap, timestamp) :
        priceMap \in StorePrices, timestamp \in 1..MaxTime}

\* a snapshot with fewer leaves than the capacity
ShortSnapshot(treeData) == [treeData EXCEPT !.leaves = SubSeq(@, 1, ShortLeaves)]

\* a snapshot whose stored root is the root of other leaves
StaleRootSnapshot(treeData, other) == [treeData EXCEPT !.root = other.root]

\* a file of the format that kept the whole tree in a member "tree"
LegacyFile(treeData) ==
    LET text == JSONstringify(treeData)
    IN  <<SubSeq(text, 1, Len(text) - 1)
          \o <<JsonToken("key", "tree"), JsonArray(<<>>), JsonToken("}", <<>>)>>>>

\* a file whose write stopped after k tokens
PartialFile(treeData, k) == <<SubSeq(JSONstringify(treeData), 1, k)>>

StoredFiles ==
    {<<>>}
    \cup {save(s) : s \in Snapshots}
    \cup {save(ShortSnapshot(s)) : s \in Snapshots}
    \cup {save(StaleRootSnapshot(s, o)) : s \in Snapshots, o \in Snapshots}
    \cup {LegacyFile(s) : s \in Snapshots}
    \cup {PartialFile(s, k) : s \in Snapshots, k \in {0, 5}}

\* the snapshots handed to save
SaveInputs == Snapshots \cup {ShortSnapshot(s) : s \in Snapshots}

InitStore ==
    /\ oFile \in StoredFiles
    /\ fin = <<>>
    /\ fout = <<>>
    /\ oPrices = <<>>
    /\ oTree = <<>>
    /\ chainRoot = ZERO
    /\ reqs = <<>>
    /\ olog = <<>>
    /\ VaultIdle

StoreFrame == UNCHANGED <<vaultVars, oPrices, oTree, chainRoot, reqs, olog>>

\* writeFileSync opens the file for writing: it is created or truncated
SaveOpen ==
    \E treeData \in SaveInputs :
        /\ fin = <<>>
        /\ fin' = <<[treeData |-> treeData, previous |-> oFile, written |-> 0]>>
        /\ oFile' = <<<<>>>>
        /\ fout' = <<>>
        /\ StoreFrame

\* writeFileSync writes the next part of the text
SaveWrite ==
    /\ fin # <<>>
    /\ fin[1].written < Len(JSONstringify(fin[1].treeData))
    /\ fin' = <<[fin[1] EXCEPT !.written = @ + 1]>>
    /\ oFile' = PartialFile(fin[1].treeData, fin[1].written + 1)
    /\ UNCHANGED fout
    /\ StoreFrame

\* writeFileSync returns, and so does save
SaveClose ==
    /\ fin # <<>>
    /\ fin[1].written = Len(JSONstringify(fin[1].treeData))
    /\ fin' = <<>>
    /\ fout' = <<[op |-> "save", treeData |-> fin[1].treeData,
                  previous |-> fin[1].previous]>>
    /\ UNCHANGED oFile
    /\ StoreFrame

\* the process stops during save
Stop ==
    /\ fin # <<>>
    /\ fin' = <<>>
    /\ fout' = <<[op |-> "stop", treeData |-> fin[1].treeData,
                  previous |-> fin[1].previous]>>
    /\ UNCHANGED oFile
    /\ StoreFrame

\* load, by the process that saved or by the next one
Load ==
    /\ fin = <<>>
    /\ fout' = <<[op |-> "load", result |-> load(oFile)]>>
    /\ UNCHANGED <<fin, oFile>>
    /\ StoreFrame

NextStore ==
    \/ SaveOpen
    \/ SaveWrite
    \/ SaveClose
    \/ Stop
    \/ Load

SpecStore == InitStore /\ [][NextStore]_vars

\* the file is corrupt: absent, unparsable, of another leaf count, or its
\* leaves do not rebuild to its root
Corrupt(file) ==
    \/ file = <<>>
    \/ JSONparse(file[1]) = <<>>
    \/ LET data == JSONparse(file[1])[1]
       IN  \/ "leaves" \notin DOMAIN data
           \/ Len(data.leaves) # LEAVES
           \/ getRoot(buildTree(data.leaves)) # data.root

\* C17: load returns null when the file is absent, is unparsable, has a leaf
\* count other than 16, or when the tree rebuilt from the stored leaves does
\* not have the stored root.
C17_LoadRejects ==
    (fout # <<>> /\ fout[1].op = "load" /\ Corrupt(oFile)) => fout[1].result = <<>>

\* load returns null when the file is absent, unparsable or of another leaf
\* count (the cases of C17 that the code checks)
LoadRejectsShape ==
    (/\ fout # <<>>
     /\ fout[1].op = "load"
     /\ \/ oFile = <<>>
        \/ JSONparse(oFile[1]) = <<>>
        \/ Len(JSONparse(oFile[1])[1].leaves) # LEAVES) => fout[1].result = <<>>

\* C18: if the process stops during save, the file is the complete previous
\* file or the complete new snapshot.
C18_AtomicSave ==
    (fout # <<>> /\ fout[1].op = "stop") =>
        oFile \in {fout[1].previous, save(fout[1].treeData)}

-----------------------------------------------------------------------------
(* SpecServer: the oracle process from its start: init() (initializeTreeState, *)
(* initContract, syncChainWithLocal), then the mutation routes.  reqs holds    *)
(* the calls of updateMerkleRootOnChain: the start-up call of                  *)
(* syncChainWithLocal and one per mutation request, which go through the       *)
(* awaits of SpecOracle (EstimateGas, SendTransaction, TxWait, Retry).  olog   *)
(* holds the process: its position in init(), its configuration, the faults    *)
(* of its environment so far and what it published; bootFile, the file found   *)
(* at the start, is kept until initializeTreeState has returned, and read, the *)
(* outcome of reading the ledger's root, until syncChainWithLocal has.         *)

\* the largest number of mutation requests the server receives
MaxCalls == 1

\* the largest number of faults of the environment (RPC errors, disk errors):
\* enough for every attempt of one ledger write to fail
MaxFaults == maxAttempts

\* the HTTP status of res.json
HTTP_OK == 200

\* the HTTP status handleError falls back to
HTTP_ERROR == 500

\* the files the process may find at its start
BootFiles ==
    {<<>>}
    \cup {save(s) : s \in {t \in Snapshots : t.timestamp = 1}}
    \cup {save(StaleRootSnapshot(s, o)) :
             s \in {t \in Snapshots : t.timestamp = 1},
             o \in {t \in Snapshots : t.timestamp = 1}}
    \cup {PartialFile(s, 5) : s \in Snapshots}

\* the roots the ledger may hold at the start
BootRoots == {ZERO} \cup {s.root : s \in Snapshots}

InitServer ==
    /\ oPrices = basePrices
    /\ oTree = <<>>
    /\ oFile \in BootFiles
    /\ chainRoot \in BootRoots
    /\ reqs = <<>>
    /\ \E mode \in {"resume", "forceRebuild"} :
           olog = [pc |-> "initializeTreeState", mode |-> mode, contract |-> FALSE,
                   bootFile |-> oFile, read |-> <<>>, exit |-> <<>>,
                   clock |-> MaxTime, published |-> <<>>,
                   writes |-> <<>>, failures |-> 0]
    /\ FnIdle
    /\ VaultIdle

ServerFrame == UNCHANGED <<fnVars, vaultVars>>

\* what writeFileSync may leave when it throws: the file untouched (the open
\* failed) or truncated (a write failed)
FailedWrite(file) == {file, <<<<>>>>}

\* loadTreeFromFile: <<>> for false, else the state it sets
loadTreeFromFile(file) ==
    LET treeData == load(file)
    IN  IF treeData = <<>>
        THEN <<>>
        ELSE <<[prices |-> MapOf(treeData[1].currentPrices),
                tree |-> [levels |-> buildTree(treeData[1].leaves),
                          leafHashMap |-> MapOf(treeData[1].leafHashMap)]]>>

\* resetToBasePrices: the prices, the tree and the file it writes; a disk
\* error leaves the prices and the tree set and makes the caller throw
resetToBasePrices(next) ==
    /\ oPrices' = basePrices
    /\ oTree' = rebuildTree(basePrices)
    /\ \/ /\ oFile' = save(TreeData(rebuildTree(basePrices), basePrices, olog.clock + 1))
          /\ olog' = [olog EXCEPT !.pc = next, !.clock = @ + 1]
       \/ /\ olog.failures < MaxFaults
          /\ oFile' \in FailedWrite(<<>>)
          /\ olog' = [olog EXCEPT !.pc = "exited", !.exit = <<"disk">>,
                                  !.failures = @ + 1]

\* initializeTreeState: --force-rebuild clears the file and resets; otherwise
\* the file is loaded, and the prices are reset when that fails
initializeTreeState ==
    /\ olog.pc = "initializeTreeState"
    /\ IF olog.mode = "forceRebuild"
       THEN resetToBasePrices("initContract")
       ELSE IF loadTreeFromFile(oFile) = <<>>
            THEN /\ oPrices' = basePrices
                 /\ oTree' = rebuildTree(basePrices)
                 /\ \/ /\ oFile' = save(TreeData(rebuildTree(basePrices), basePrices,
                                                 olog.clock + 1))
                       /\ olog' = [olog EXCEPT !.pc = "initContract", !.clock = @ + 1]
                    \/ /\ olog.failures < MaxFaults
                       /\ oFile' \in FailedWrite(oFile)
                       /\ olog' = [olog EXCEPT !.pc = "exited", !.exit = <<"disk">>,
                                               !.failures = @ + 1]
            ELSE /\ oPrices' = loadTreeFromFile(oFile)[1].prices
                 /\ oTree' = loadTreeFromFile(oFile)[1].tree
                 /\ olog' = [olog EXCEPT !.pc = "initContract"]
                 /\ UNCHANGED oFile
    /\ UNCHANGED <<chainRoot, reqs>>
    /\ ServerFrame

\* initContract: the contract is connected, or the failure is caught and the
\* oracle runs in local-only mode
initContract ==
    /\ olog.pc = "initContract"
    /\ \E connected \in BOOLEAN :
           olog' = [olog EXCEPT !.pc = "syncChainWithLocal", !.contract = connected,
                                !.bootFile = <<>>]
    /\ UNCHANGED <<oPrices, oTree, oFile, chainRoot, reqs>>
    /\ ServerFrame

\* syncChainWithLocal, to its first await: without a contract it returns
syncChainWithLocal ==
    /\ olog.pc = "syncChainWithLocal"
    /\ olog' = [olog EXCEPT !.pc = IF olog.contract /\ oTree # <<>>
                                   THEN "getOnChainMerkleRoot" ELSE "serving"]
    /\ UNCHANGED <<oPrices, oTree, oFile, chainRoot, reqs>>
    /\ ServerFrame

RootMismatchMut(onChainRoot, localRoot) == FALSE

\* onChainRoot && onChainRoot !== localRoot, on decimal strings; <<>> is null
RootMismatch(onChainRoot, localRoot) ==
    onChainRoot # <<>> /\ onChainRoot[1] # localRoot

\* a call of updateMerkleRootOnChain(newRoot), at its first await
RootWrite(op, newRoot, persisted) ==
    [op |-> op, pc |-> "estimateGas", rootHex |-> ToHex(ParseSignal(newRoot)),
     attempt |-> 1, persisted |-> persisted, status |-> <<>>]

\* await getOnChainMerkleRoot() returns the ledger's root or, when the call
\* throws, null; on a mismatch the local root is sent to the ledger
getOnChainMerkleRoot ==
    /\ olog.pc = "getOnChainMerkleRoot"
    /\ \E onChainRoot \in {<<ToDec(ParseSignal(ToHex(chainRoot)))>>} \cup
                          (IF olog.failures < MaxFaults THEN {<<>>} ELSE {}) :
           LET localRoot == ToDec(getRoot(oTree.levels))
           IN  IF RootMismatch(onChainRoot, localRoot)
               THEN /\ reqs' = <<RootWrite("syncChainWithLocal", localRoot, TRUE)>>
                    /\ olog' = [olog EXCEPT !.pc = "updateMerkleRootOnChain",
                                            !.read = <<"ok">>]
               ELSE /\ reqs' = reqs
                    /\ olog' = [olog EXCEPT
                                   !.pc = "sendJSONFileTransaction",
                                   !.read = IF onChainRoot = <<>> THEN <<"failed">>
                                                                  ELSE <<"ok">>,
                                   !.failures = IF onChainRoot = <<>> THEN @ + 1 ELSE @]
    /\ UNCHANGED <<oPrices, oTree, oFile, chainRoot>>
    /\ ServerFrame

OnLedgerFailureMut(r) ==
    /\ oPrices' = basePrices
    /\ oTree' = rebuildTree(basePrices)
    /\ UNCHANGED oFile

\* retryWithBackoff's catch block: it logs, and sleeps or rethrows
OnLedgerFailure(r) == UNCHANGED <<oPrices, oTree, oFile>>

\* an RPC call of an attempt throws
RpcFault ==
    \E r \in 1..Len(reqs) :
        /\ reqs[r].pc \in {"estimateGas", "send"}
        /\ olog.failures < MaxFaults
        /\ reqs' = [reqs EXCEPT ![r].pc = IF reqs[r].attempt < maxAttempts
                                          THEN "delay" ELSE "failed"]
        /\ olog' = [olog EXCEPT !.failures = @ + 1]
        /\ OnLedgerFailure(r)
        /\ UNCHANGED chainRoot
        /\ ServerFrame

\* the start-up write returned: syncChainWithLocal goes on to the blob
SyncWritten ==
    /\ olog.pc = "updateMerkleRootOnChain"
    /\ reqs[1].pc = "done"
    /\ reqs' = [reqs EXCEPT ![1].pc = "returned"]
    /\ olog' = [olog EXCEPT !.pc = "sendJSONFileTransaction"]
    /\ UNCHANGED <<oPrices, oTree, oFile, chainRoot>>
    /\ ServerFrame

\* the start-up write threw after its last attempt: init() rejects, and
\* startServer's catch calls process.exit(1)
SyncFailed ==
    /\ olog.pc = "updateMerkleRootOnChain"
    /\ reqs[1].pc = "failed"
    /\ reqs' = [reqs EXCEPT ![1].pc = "returned"]
    /\ olog' = [olog EXCEPT !.pc = "exited", !.exit = <<"ledger">>]
    /\ UNCHANGED <<oPrices, oTree, oFile, chainRoot>>
    /\ ServerFrame

\* sendJSONFileTransaction(TREE_FILE_PATH) in its try block: the blob is
\* published, or the error is caught; init() then sets initialized
sendJSONFileTransaction ==
    /\ olog.pc = "sendJSONFileTransaction"
    /\ \/ olog' = [olog EXCEPT !.pc = "serving", !.read = <<>>,
                                !.published = Append(@, 0)]
       \/ /\ olog.failures < MaxFaults
          /\ olog' = [olog EXCEPT !.pc = "serving", !.read = <<>>,
                                  !.failures = @ + 1]
    /\ UNCHANGED <<oPrices, oTree, oFile, chainRoot, reqs>>
    /\ ServerFrame

Calls == {r \in 1..Len(reqs) : reqs[r].op # "syncChainWithLocal"}

\* a mutation route to the first await of its handler: the prices are set,
\* rebuildTree builds the tree and saves it, and updateTreeAndChain (or
\* updateMerkleRoot) enters updateMerkleRootOnChain when there is a contract
MutationRoute(op, priceMap) ==
    /\ olog.pc = "serving"
    /\ Cardinality(Calls) < MaxCalls
    /\ \E tree \in {rebuildTree(priceMap)} :
       LET call == RootWrite(op, ToDec(getRoot(tree.levels)), TRUE)
       IN  /\ oPrices' = priceMap
           /\ oTree' = tree
           /\ \/ /\ oFile' = save(TreeData(tree, priceMap, olog.clock + 1))
                 /\ reqs' = Append(reqs, IF olog.contract THEN call
                                         ELSE [call EXCEPT !.pc = "done"])
                 /\ olog' = [olog EXCEPT !.clock = @ + 1]
              \/ /\ olog.failures < MaxFaults
                 /\ oFile' \in FailedWrite(oFile)
                 /\ reqs' = Append(reqs, [call EXCEPT !.pc = "failed",
                                                      !.persisted = FALSE])
                 /\ olog' = [olog EXCEPT !.failures = @ + 1]
    /\ UNCHANGED chainRoot
    /\ ServerFrame

\* POST /api/debug/set-price
PostSetPrice ==
    \E productId \in 1..OracleProducts :
        MutationRoute("setProductPrice", currentPricesSet(oPrices, productId, SalePrice))

\* POST /api/drop-prices
PostDropPrices == MutationRoute("dropAllPrices", DroppedPrices(oPrices, StoreDrop))

\* POST /api/debug/force-rebuild; POST /api/debug/reset-prices does the same
\* by resetAllPrices() and then updateMerkleRoot()
PostForceRebuild == MutationRoute("forceRebuildFromBase", basePrices)

\* the handler after its await: res.json, or handleError in its catch
Respond ==
    \E r \in Calls :
        /\ reqs[r].pc \in {"done", "failed"}
        /\ reqs' = [reqs EXCEPT ![r].pc = "responded",
                                ![r].status = IF reqs[r].pc = "done"
                                              THEN <<HTTP_OK>> ELSE <<HTTP_ERROR>>]
        /\ UNCHANGED <<oPrices, oTree, oFile, chainRoot, olog>>
        /\ ServerFrame

NextServer ==
    \/ initializeTreeState
    \/ initContract
    \/ syncChainWithLocal
    \/ getOnChainMerkleRoot
    \/ SyncWritten
    \/ SyncFailed
    \/ sendJSONFileTransaction
    \/ PostSetPrice
    \/ PostDropPrices
    \/ PostForceRebuild
    \/ EstimateGas
    \/ SendTransaction
    \/ TxWait
    \/ RpcFault
    \/ Retry
    \/ Respond

SpecServer == InitServer /\ [][NextServer]_vars

\* the local state: the price map, the tree and the snapshot file
Local == <<oPrices, oTree, oFile>>

\* C11: if the snapshot write of a mutation fails, the mutation is aborted:
\* the price map and the tree (and so the root) are what they were before
\* the call.
C11_PersistAbort ==
    [][(Len(reqs') > Len(reqs) /\ ~reqs'[Len(reqs')].persisted) =>
           (oPrices' = oPrices /\ oTree' = oTree)]_vars

\* C12: a mutation request whose snapshot write succeeded is answered with
\* success, whatever the outcome of the ledger write.
C12_ReportsSuccess ==
    \A r \in Calls :
        (reqs[r].status # <<>> /\ reqs[r].persisted) => reqs[r].status = <<HTTP_OK>>

\* a step in which a ledger write or the blob publication fails, or in which
\* the failure is passed on (init() rejects, the handler answers)
FailureStep ==
    \/ \E r \in 1..Len(reqs) :
           /\ reqs[r].pc \in {"estimateGas", "send"}
           /\ reqs'[r].pc \in {"delay", "failed"}
    \/ \E r \in 1..Len(reqs) :
           /\ reqs[r].pc = "failed"
           /\ reqs'[r].pc \in {"responded", "returned"}
    \/ /\ olog.pc = "sendJSONFileTransaction"
       /\ olog'.pc = "serving"
       /\ olog'.published = olog.published

\* C13: when the ledger write or the blob publication fails, the price map,
\* the tree and the snapshot file keep their values: the failing step leaves
\* them alone, and after the last mutation's ledger write has failed they are
\* still that mutation's prices, tree and snapshot.
C13_LocalKept ==
    /\ [][FailureStep => UNCHANGED Local]_vars
    /\ [](\A r \in Calls :
              (/\ r = Len(reqs)
               /\ reqs[r].persisted
               /\ reqs[r].pc \in {"delay", "failed", "responded"}) =>
                  /\ ToHex(getRoot(oTree.levels)) = reqs[r].rootHex
                  /\ oTree = rebuildTree(oPrices)
                  /\ oFile = save(TreeData(oTree, oPrices, olog.clock)))

\* the ledger write of a set-price request has failed on its last attempt
C13_Witness ==
    /\ Len(reqs) > 0
    /\ reqs[Len(reqs)].op = "setProductPrice"
    /\ reqs[Len(reqs)].pc = "failed"
    /\ reqs[Len(reqs)].persisted
    /\ reqs[Len(reqs)].attempt = maxAttempts
    /\ oPrices # basePrices
    /\ chainRoot # getRoot(oTree.levels)

\* C14: a ledger that is unavailable, also for every retry of the start-up
\* root write, does not make the process exit.
C14_NonFatal == ~(olog.pc = "exited" /\ olog.exit = <<"ledger">>)

SyncPhases ==
    {"syncChainWithLocal", "getOnChainMerkleRoot", "updateMerkleRootOnChain",
     "sendJSONFileTransaction"}

\* C15: reconciliation copies the local root to the ledger and never changes
\* the local state: a ledger write writes the root a call took from the local
\* tree; at the start, a readable ledger root that differs makes the oracle
\* write the local root, and once that write has succeeded the ledger root is
\* the local root; the prices, the tree and the file do not change meanwhile.
C15_LocalAuthoritative ==
    /\ [][olog.pc \in SyncPhases => UNCHANGED Local]_vars
    /\ [][chainRoot' # chainRoot =>
              /\ \E r \in 1..Len(reqs) :
                     /\ reqs[r].pc = "send"
                     /\ ToHex(chainRoot') = reqs[r].rootHex
              /\ UNCHANGED Local]_vars
    /\ [](olog.pc = "updateMerkleRootOnChain" =>
              /\ reqs[1].rootHex = ToHex(getRoot(oTree.levels))
              /\ reqs[1].pc \in {"wait", "done"} => chainRoot = getRoot(oTree.levels))
    /\ []((olog.pc = "sendJSONFileTransaction" /\ olog.read = <<"ok">>) =>
              chainRoot = getRoot(oTree.levels))

\* the start-up write of a resumed snapshot's root has succeeded over another
\* root, after a failed attempt
C15_Witness ==
    /\ olog.pc = "sendJSONFileTransaction"
    /\ olog.read = <<"ok">>
    /\ olog.mode = "resume"
    /\ Len(reqs) = 1
    /\ reqs[1].pc = "returned"
    /\ reqs[1].attempt > 1
    /\ olog.writes = <<1>>
    /\ oPrices # basePrices
    /\ chainRoot = getRoot(oTree.levels)

\* the state after resetToBasePrices: base prices, their tree, and a file
\* that loads as their snapshot
AtBasePrices ==
    /\ oPrices = basePrices
    /\ oTree = rebuildTree(basePrices)
    /\ load(oFile) # <<>>
    /\ MapOf(load(oFile)[1].currentPrices) = basePrices
    /\ load(oFile)[1].leaves = oTree.levels[1]
    /\ load(oFile)[1].root = getRoot(oTree.levels)

\* the state after the snapshot of the file found at the start was resumed
AtSnapshot(file) ==
    LET treeData == JSONparse(file[1])[1]
    IN  /\ oPrices = MapOf(treeData.currentPrices)
        /\ oTree.levels = buildTree(treeData.leaves)
        /\ oTree.leafHashMap = MapOf(treeData.leafHashMap)
        /\ oFile = file

\* C16: initializeTreeState in forceRebuild mode, or in resume mode without a
\* valid snapshot, ends at the base prices, rebuilt and persisted; in resume
\* mode with a valid snapshot it ends at the snapshot's prices and tree.
C16_Initialize ==
    olog.pc = "initContract" =>
        IF olog.mode = "forceRebuild" \/ Corrupt(olog.bootFile)
        THEN AtBasePrices
        ELSE AtSnapshot(olog.bootFile) /\ getRoot(oTree.levels) = load(oFile)[1].root

\* the same with "valid" as load judges it: initializeTreeState resets
\* exactly when it is forced to or load returns null
InitializeByLoad ==
    olog.pc = "initContract" =>
        IF olog.mode = "forceRebuild" \/ load(olog.bootFile) = <<>>
        THEN AtBasePrices
        ELSE AtSnapshot(olog.bootFile)

Range(s) == {s[k] : k \in 1..Len(s)}

\* C20: every mutation rebuilds, persists, pushes the root to the ledger and
\* publishes the snapshot as a blob, and nothing is pushed or published
\* before the persist.
C20_MutationOrder ==
    /\ \A r \in Range(olog.writes) \cup Range(olog.published) :
           r \in Calls => reqs[r].persisted
    /\ \A r \in Calls :
           (olog.contract /\ reqs[r].status = <<HTTP_OK>>) =>
               /\ reqs[r].persisted
               /\ r \in Range(olog.writes)
               /\ r \in Range(olog.published)

\* the part of C20 the code keeps: a mutation answered with success on a
\* connected oracle has persisted and then pushed its root
PersistThenPush ==
    /\ \A r \in Range(olog.writes) : r \in Calls => reqs[r].persisted
    /\ \A r \in Calls :
           (olog.contract /\ reqs[r].status = <<HTTP_OK>>) =>
               reqs[r].persisted /\ r \in Range(olog.writes)

-----------------------------------------------------------------------------
(* SpecCatalog: an oracle without a contract over catalogs of several sizes, *)
(* asked for proofs and price mutations with ids, indices and prices of any  *)
(* kind                                                                      *)

\* the largest number of calls of one run
MaxOps == 2

\* POST /drop-prices: the percentage taken when the body gives none
DEFAULT_PERCENTAGE == 20

\* POST /drop-prices: the largest percentage accepted
MAX_PERCENTAGE == 50

\* the sizes of products.json
CatalogSizes == {OracleProducts, LEAVES + 1}

\* this.products
products == Catalog(fin.n)

\* new Map(this.products.map((p) => [p.id, p.basePrice]))
basePriceMap(catalog) == [id \in 1..Len(catalog) |-> BasePrice(catalog[id], 0)]

\* the ids a request names: the first product in another spelling than the
\* catalog's, the last product, and an id that is no product's
ProductIds == {0 - 1, fin.n, fin.n + 1}

\* the leaf indices asked of the tree
LeafIndices == {0 - 1, 0, Len(oTree.levels[1]) - 1, Len(oTree.levels[1])}

\* the price of a request body, in tenths of a cent
BodyPrices == {10 * SalePrice + 5, 0 - (10 * SalePrice + 5)}

\* the percentage of a request body; 0 stands for a body without one
BodyPercentages == {0, StoreDrop, MAX_PERCENTAGE + StoreDrop}

\* Math.floor(Number(price)) of a price given in tenths
numericPrice(price) == price \div 10

InitCatalog ==
    /\ fin \in [n : CatalogSizes]
    /\ oPrices = basePriceMap(Catalog(fin.n))
    /\ oTree = buildMerkleTreeFromProducts(Catalog(fin.n), basePriceMap(Catalog(fin.n)))
    /\ oFile = saveTreeToFile(oTree, oPrices)
    /\ olog = [ops |-> 0, last |-> <<>>]
    /\ fout = <<>>
    /\ chainRoot = ZERO
    /\ reqs = <<>>
    /\ VaultIdle

CatalogFrame == UNCHANGED <<fin, fout, chainRoot, reqs, vaultVars>>

\* what a call leaves behind for the properties: its inputs, its result and
\* the state it started from
Call(op, input, price, result) ==
    [op |-> op, input |-> input, price |-> price, result |-> result,
     oldPrices |-> oPrices, oldTree |-> oTree, oldFile |-> oFile]

\* a call that answers without touching the state
Answer(op, input, price, result) ==
    /\ olog.ops < MaxOps
    /\ olog' = [ops |-> olog.ops + 1, last |-> <<Call(op, input, price, result)>>]
    /\ UNCHANGED <<oPrices, oTree, oFile>>
    /\ CatalogFrame

\* updateTreeAndChain without a contract: rebuildTree, which saves
updateTreeAndChain(op, input, price, priceMap) ==
    /\ olog.ops < MaxOps
    /\ \E tree \in {buildMerkleTreeFromProducts(products, priceMap)} :
           /\ oPrices' = priceMap
           /\ oTree' = tree
           /\ oFile' = saveTreeToFile(tree, priceMap)
    /\ olog' = [ops |-> olog.ops + 1,
                last |-> <<Call(op, input, price, [error |-> <<>>, status |-> HTTP_OK])>>]
    /\ CatalogFrame

\* oracle.getMerkleProof(productId)
OracleGetMerkleProof ==
    \E productId \in ProductIds :
        Answer("getMerkleProof", productId, 0,
               getMerkleProof(products, oTree, oPrices, productId))

\* tree.getProof(leafIndex)
TreeGetProof ==
    \E leafIndex \in LeafIndices :
        Answer("getProof", leafIndex, 0,
               [error |-> <<>>, proof |-> getProof(oTree.levels, leafIndex)])

\* oracle.setProductPrice(productId, price)
OracleSetProductPrice ==
    \E productId \in ProductIds :
        updateTreeAndChain("setProductPrice", productId, SalePrice,
                           currentPricesSet(oPrices, productId, SalePrice))

\* POST /api/debug/set-price; productId 0 stands for a body without one
RouteSetPrice ==
    \E productId \in ProductIds \cup {0}, price \in BodyPrices :
        IF productId = 0
        THEN Answer("POST /set-price", productId, price,
                    [error |-> <<"required">>, status |-> 400])
        ELSE IF findIndex(products, normalizedProductId(productId)) = 0 - 1
        THEN Answer("POST /set-price", productId, price,
                    [error |-> <<"not found">>, status |-> 404])
        ELSE updateTreeAndChain("POST /set-price", productId, numericPrice(price),
                                currentPricesSet(oPrices, normalizedProductId(productId),
                                                 numericPrice(price)))

\* POST /api/drop-prices
RouteDropPrices ==
    \E body \in BodyPercentages :
        LET percentage == IF body = 0 THEN DEFAULT_PERCENTAGE ELSE body
        IN  IF percentage <= 0 \/ percentage > MAX_PERCENTAGE
            THEN Answer("POST /drop-prices", 0, percentage,
                        [error |-> <<"percentage">>, status |-> 400])
            ELSE updateTreeAndChain("POST /drop-prices", 0, percentage,
                                    [id \in DOMAIN oPrices |->
                                        IF id \in 1..Len(products)
                                        THEN (oPrices[id] * (100 - percentage)) \div 100
                                        ELSE oPrices[id]])

\* forceRebuildFromBase without its resetToBasePrices
RouteForceRebuildMut == updateTreeAndChain("POST /force-rebuild", 0, 0, oPrices)

\* POST /api/debug/force-rebuild, and POST /api/debug/reset-prices which does
\* the same by resetAllPrices() and updateMerkleRoot()
RouteForceRebuild ==
    updateTreeAndChain("POST /force-rebuild", 0, 0, basePriceMap(products))

NextCatalog ==
    \/ OracleGetMerkleProof
    \/ TreeGetProof
    \/ OracleSetProductPrice
    \/ RouteSetPrice
    \/ RouteDropPrices
    \/ RouteForceRebuild

SpecCatalog == InitCatalog /\ [][NextCatalog]_vars

\* the last call named an id that, upper-cased and trimmed, is no product's
UnknownId ==
    /\ olog.last # <<>>
    /\ olog.last[1].op \in {"getMerkleProof", "setProductPrice", "POST /set-price"}
    /\ olog.last[1].input # 0
    /\ findIndex(products, normalizedProductId(olog.last[1].input)) = 0 - 1

\* the last call left the price map, the tree and the snapshot as they were
StateKept ==
    /\ oPrices = olog.last[1].oldPrices
    /\ oTree = olog.last[1].oldTree
    /\ oFile = olog.last[1].oldFile

\* C21: getMerkleProof(id) and setPrice(id, price) for an id that is not in
\* the catalog after upper-casing and trimming fail with a not-found error
\* and leave the price map, the tree and the snapshot unchanged.
C21_NotFound ==
    UnknownId => (olog.last[1].result.error = <<"not found">> /\ StateKept)

\* what holds: getMerkleProof and the set-price route answer an unknown id
\* with not-found and change nothing
NotFoundAtTheRoute ==
    (UnknownId /\ olog.last[1].op # "setProductPrice") =>
        (olog.last[1].result.error = <<"not found">> /\ StateKept)

\* the leaf hashes of the catalog's products at the current prices, in
\* catalog order
CatalogLeaves ==
    [k \in 1..Len(products) |->
        calculateLeafHash(calculateProductHash(products[k]), oPrices[products[k]])]

\* C23: in every state with a built tree the leaf array has exactly 16
\* entries, the catalog products' leaf hashes in catalog order followed by
\* the zero sentinel; the catalog is no larger than the capacity; and every
\* proof the oracle returns has exactly 4 siblings and 4 binary flags.
C23_LeafArray ==
    /\ Len(oTree.levels[1]) = LEAVES
    /\ Len(products) <= LEAVES
    /\ \A k \in 1..LEAVES :
          oTree.levels[1][k] = IF k <= Len(products) THEN CatalogLeaves[k] ELSE ZERO
    /\ (/\ olog.last # <<>>
        /\ olog.last[1].op = "getMerkleProof"
        /\ olog.last[1].result.error = <<>>) =>
           /\ Len(olog.last[1].result.siblings) = LEVELS
           /\ Len(olog.last[1].result.pathIndices) = LEVELS
           /\ \A k \in 1..LEVELS : olog.last[1].result.pathIndices[k] \in {0, 1}

\* what holds: a catalog within the capacity gives the 16 leaves of the
\* claim, and a proof that is returned has 4 siblings and 4 binary flags
LeafArrayWithinCapacity ==
    /\ Len(products) <= LEAVES =>
          /\ Len(oTree.levels[1]) = LEAVES
          /\ \A k \in 1..LEAVES :
                oTree.levels[1][k] = IF k <= Len(products) THEN CatalogLeaves[k] ELSE ZERO
    /\ (/\ olog.last # <<>>
        /\ olog.last[1].op = "getMerkleProof"
        /\ olog.last[1].result.error = <<>>) =>
           /\ Len(olog.last[1].result.siblings) = LEVELS
           /\ Len(olog.last[1].result.pathIndices) = LEVELS
           /\ \A k \in 1..LEVELS : olog.last[1].result.pathIndices[k] \in {0, 1}

\* C24: getProof(index) with an index outside the leaves (negative, or at
\* least the number of leaves) fails with an index-out-of-range error
\* instead of returning a proof.
C24_IndexOutOfRange ==
    (/\ olog.last # <<>>
     /\ olog.last[1].op = "getProof"
     /\ (olog.last[1].input < 0 \/ olog.last[1].input >= Len(oTree.levels[1]))) =>
        olog.last[1].result.error = <<"index out of range">>

\* C25: after any sequence of set-price, drop-prices, reset-prices and
\* force-rebuild requests every value of the price map is a non-negative
\* integer and the price map holds exactly the catalog's product ids.
C25_PriceMap ==
    /\ DOMAIN oPrices = 1..Len(products)
    /\ \A id \in DOMAIN oPrices : oPrices[id] \in Nat

\* what holds: the routes add no key to the price map, and every value stays
\* an integer
PriceMapKeysAtTheRoutes ==
    (olog.last # <<>> /\ olog.last[1].op # "setProductPrice") =>
        /\ DOMAIN oPrices \subseteq DOMAIN olog.last[1].oldPrices
        /\ \A id \in DOMAIN oPrices : oPrices[id] \in Int

\* the root of the first build, from the base prices
BaseRoot == getRoot(buildMerkleTreeFromProducts(products, basePriceMap(products)).levels)

\* C26: the root is a function of the price map alone: in every state it is
\* the root of a build from the current price map, and after any sequence of
\* price mutations a reset or force-rebuild brings it back to the root of the
\* first build from the base prices.
C26_RootOfPrices ==
    /\ getRoot(oTree.levels) = getRoot(buildMerkleTreeFromProducts(products, oPrices).levels)
    /\ (olog.last # <<>> /\ olog.last[1].op = "POST /force-rebuild") =>
          /\ getRoot(oTree.levels) = BaseRoot
          /\ oPrices = basePriceMap(products)

\* a force-rebuild has brought back the base root after a mutation that had
\* changed it
C26_Witness ==
    /\ olog.last # <<>>
    /\ olog.last[1].op = "POST /force-rebuild"
    /\ getRoot(olog.last[1].oldTree.levels) # BaseRoot
    /\ getRoot(oTree.levels) = BaseRoot

-----------------------------------------------------------------------------
(* SpecBlob: payloads packed into a blob and read back, by JsonBlobUtils and *)
(* by BlobUtils                                                              *)

\* the number of field elements of a blob: BLOB_CONFIG.SIZE_BYTES / 32, which
\* is 4096 in the source
FieldElements == 2

BYTES_PER_FIELD_ELEMENT == 32

\* BLOB_CONFIG.SIZE_BYTES
SIZE_BYTES == FieldElements * BYTES_PER_FIELD_ELEMENT

\* the payload bytes the encoding has room for: 31 of every field element
Capacity == FieldElements * (BYTES_PER_FIELD_ELEMENT - 1)

\* the bytes of BLS_MODULUS, the most significant first
BLS_MODULUS == <<115, 237, 167, 83, 41, 157, 125, 72, 51, 57, 216, 8, 9, 161, 216, 5, 83, 189, 164, 2, 255, 254, 91, 254, 255, 255, 255, 255, 0, 0, 0, 1>>

\* the mask BlobUtils.createValidBlob applies to a first byte
FIRST_BYTE_MASK == 115

\* a >= b for two big-endian byte strings of one length, from position k on
RECURSIVE GreaterOrEqual(_, _, _)
GreaterOrEqual(a, b, k) ==
    IF k > Len(a) THEN TRUE
    ELSE IF a[k] # b[k] THEN a[k] > b[k]
    ELSE GreaterOrEqual(a, b, k + 1)

\* a & b on bytes
RECURSIVE BitAnd(_, _)
BitAnd(a, b) ==
    IF a = 0 \/ b = 0 THEN 0
    ELSE (a % 2) * (b % 2) + 2 * BitAnd(a \div 2, b \div 2)

\* new Uint8Array(SIZE_BYTES) after blob.set(data)
BlobSet(data) == [i \in 1..SIZE_BYTES |-> IF i <= Len(data) THEN data[i] ELSE 0]

\* blob.slice(i, i + 32) of the field element at the 0-based offset i
FieldElement(blob, i) == SubSeq(blob, i + 1, i + BYTES_PER_FIELD_ELEMENT)

\* JsonBlobUtils.createValidBlob: byte 0 of every field element is 0 and bytes
\* 1..31 take the next 31 bytes of the data, as long as there are field
\* elements
JsonBlobUtils_createValidBlob(data) ==
    [i \in 1..SIZE_BYTES |->
        LET fieldIndex == (i - 1) \div BYTES_PER_FIELD_ELEMENT
            byteIndex == (i - 1) % BYTES_PER_FIELD_ELEMENT
            dataIndex == fieldIndex * (BYTES_PER_FIELD_ELEMENT - 1) + byteIndex
        IN  IF byteIndex >= 1 /\ dataIndex <= Len(data) THEN data[dataIndex] ELSE 0]

\* JsonBlobUtils.createBlobFromJSON on the bytes of JSON.stringify(data)
createBlobFromJSON(jsonBytes) ==
    IF Len(jsonBytes) > SIZE_BYTES
    THEN [error |-> <<"too large">>]
    ELSE [error |-> <<>>, blob |-> JsonBlobUtils_createValidBlob(jsonBytes)]

\* the bytes 1..31 of one field element up to its first zero byte
RECURSIVE FieldData(_, _, _)
FieldData(blob, fieldOffset, byteIndex) ==
    IF byteIndex >= BYTES_PER_FIELD_ELEMENT \/ blob[fieldOffset + byteIndex + 1] = 0
    THEN <<>>
    ELSE <<blob[fieldOffset + byteIndex + 1]>> \o FieldData(blob, fieldOffset, byteIndex + 1)

\* extractJSONFromBlob up to extractedData: the loop over the field elements
RECURSIVE extractedData(_, _)
extractedData(blob, fieldIndex) ==
    IF fieldIndex >= SIZE_BYTES \div BYTES_PER_FIELD_ELEMENT
    THEN <<>>
    ELSE FieldData(blob, fieldIndex * BYTES_PER_FIELD_ELEMENT, 1)
             \o extractedData(blob, fieldIndex + 1)

\* BlobUtils.createValidBlob: the data copied as it is, then the first byte of
\* every field element that is not below the modulus masked, or zeroed
BlobUtils_createValidBlob(data) ==
    LET blob == BlobSet(data)
    IN  [j \in 1..SIZE_BYTES |->
            LET i == j - 1
            IN  IF i % BYTES_PER_FIELD_ELEMENT = 0
                   /\ GreaterOrEqual(FieldElement(blob, i), BLS_MODULUS, 1)
                THEN IF i < Len(data) THEN BitAnd(blob[j], FIRST_BYTE_MASK) ELSE 0
                ELSE blob[j]]

\* BlobUtils.createBlobFromText on the bytes of the message
createBlobFromText(messageBytes) ==
    IF Len(messageBytes) > SIZE_BYTES
    THEN [error |-> <<"too large">>]
    ELSE [error |-> <<>>, blob |-> BlobUtils_createValidBlob(messageBytes)]

\* blob.findIndex(byte => byte === 0), 0-based, -1 when there is none
messageEnd(blob) ==
    IF \E i \in 1..Len(blob) : blob[i] = 0
    THEN (CHOOSE i \in 1..Len(blob) : blob[i] = 0 /\ \A j \in 1..(i - 1) : blob[j] # 0) - 1
    ELSE 0 - 1

\* BlobUtils.extractTextFromBlob, before the decoding
extractTextFromBlob(blob) ==
    SubSeq(blob, 1, IF messageEnd(blob) = 0 - 1 THEN Len(blob) ELSE messageEnd(blob))

\* the words the payloads repeat: "a"; "t"; "w" and U+FFFD in UTF-8; the
\* byte 255; "a" and a zero byte
Words == {<<97>>, <<116>>, <<119, 239, 191, 189>>, <<255>>, <<97, 0>>}

Payload(len, word) == [k \in 1..len |-> word[((k - 1) % Len(word)) + 1]]

Payloads == {Payload(len, word) : len \in 0..(SIZE_BYTES + 1), word \in Words}

InitBlob ==
    /\ fin \in [data : Payloads]
    /\ fout = <<>>
    /\ VaultIdle
    /\ OracleIdle

BlobFrame == UNCHANGED <<fin, vaultVars, oracleVars>>

CreateBlobFromJSON ==
    /\ fout = <<>>
    /\ fout' = <<[class |-> "JsonBlobUtils", made |-> createBlobFromJSON(fin.data),
                  read |-> <<>>]>>
    /\ BlobFrame

CreateBlobFromText ==
    /\ fout = <<>>
    /\ fout' = <<[class |-> "BlobUtils", made |-> createBlobFromText(fin.data),
                  read |-> <<>>]>>
    /\ BlobFrame

ExtractJSONFromBlob ==
    /\ fout # <<>>
    /\ fout[1].class = "JsonBlobUtils"
    /\ fout[1].made.error = <<>>
    /\ fout[1].read = <<>>
    /\ fout' = <<[fout[1] EXCEPT !.read = <<extractedData(fout[1].made.blob, 0)>>]>>
    /\ BlobFrame

ExtractTextFromBlob ==
    /\ fout # <<>>
    /\ fout[1].class = "BlobUtils"
    /\ fout[1].made.error = <<>>
    /\ fout[1].read = <<>>
    /\ fout' = <<[fout[1] EXCEPT !.read = <<extractTextFromBlob(fout[1].made.blob)>>]>>
    /\ BlobFrame

NextBlob ==
    \/ CreateBlobFromJSON
    \/ CreateBlobFromText
    \/ ExtractJSONFromBlob
    \/ ExtractTextFromBlob

SpecBlob == InitBlob /\ [][NextBlob]_vars

\* the bytes 1..31 of every field element of a blob, one after the other
RECURSIVE UsableBytes(_, _)
UsableBytes(blob, fieldIndex) ==
    IF fieldIndex >= FieldElements THEN <<>>
    ELSE SubSeq(blob, fieldIndex * BYTES_PER_FIELD_ELEMENT + 2,
                (fieldIndex + 1) * BYTES_PER_FIELD_ELEMENT)
             \o UsableBytes(blob, fieldIndex + 1)

\* every byte of the data is in the blob, in order, in the usable bytes
StoresEveryByte(blob, data) ==
    /\ Len(data) <= Capacity
    /\ SubSeq(UsableBytes(blob, 0), 1, Len(data)) = data

\* C27: createBlobFromJSON accepts a payload of up to exactly the capacity,
\* 31 bytes for every field element, and stores every byte of it in the
\* blob; a payload of one byte more, or longer, fails as too large and gives
\* no blob.
C27_Capacity ==
    (fout # <<>> /\ fout[1].class = "JsonBlobUtils") =>
        IF Len(fin.data) <= Capacity
        THEN fout[1].made.error = <<>> /\ StoresEveryByte(fout[1].made.blob, fin.data)
        ELSE fout[1].made.error = <<"too large">>

\* what holds: a payload within the capacity is stored whole, and one longer
\* than the blob is refused
StoredWithinCapacity ==
    (fout # <<>> /\ fout[1].class = "JsonBlobUtils") =>
        /\ Len(fin.data) <= Capacity =>
              fout[1].made.error = <<>> /\ StoresEveryByte(fout[1].made.blob, fin.data)
        /\ Len(fin.data) > SIZE_BYTES => fout[1].made.error = <<"too large">>

\* every field element of the blob is below the modulus
BelowModulus(blob) ==
    \A fieldIndex \in 0..(FieldElements - 1) :
        ~GreaterOrEqual(FieldElement(blob, fieldIndex * BYTES_PER_FIELD_ELEMENT),
                        BLS_MODULUS, 1)

\* C28: for every payload every 32-byte chunk of the blob made from it is
\* strictly below the field modulus, by JsonBlobUtils.createValidBlob, whose
\* chunks begin with a zero byte, and by BlobUtils.createValidBlob as well.
C28_BelowModulus ==
    (fout # <<>> /\ fout[1].made.error = <<>>) =>
        /\ BelowModulus(fout[1].made.blob)
        /\ fout[1].class = "JsonBlobUtils" =>
              \A fieldIndex \in 0..(FieldElements - 1) :
                  fout[1].made.blob[fieldIndex * BYTES_PER_FIELD_ELEMENT + 1] = 0

\* what holds: the chunks of JsonBlobUtils begin with a zero byte and are
\* below the modulus
JsonBelowModulus ==
    (fout # <<>> /\ fout[1].made.error = <<>> /\ fout[1].class = "JsonBlobUtils") =>
        /\ BelowModulus(fout[1].made.blob)
        /\ \A fieldIndex \in 0..(FieldElements - 1) :
              fout[1].made.blob[fieldIndex * BYTES_PER_FIELD_ELEMENT + 1] = 0

ZeroFree(data) == \A k \in 1..Len(data) : data[k] # 0

\* C29: for every payload of at most the capacity that has no zero byte,
\* reading the blob made from it gives the payload back, by
\* extractJSONFromBlob after JsonBlobUtils.createValidBlob and by
\* extractTextFromBlob after BlobUtils.createValidBlob.
C29_RoundTrip ==
    (/\ fout # <<>>
     /\ fout[1].read # <<>>
     /\ Len(fin.data) <= Capacity
     /\ ZeroFree(fin.data)) => fout[1].read[1] = fin.data

\* what holds: the round trip of JsonBlobUtils
JsonRoundTrip ==
    (/\ fout # <<>>
     /\ fout[1].class = "JsonBlobUtils"
     /\ fout[1].read # <<>>
     /\ Len(fin.data) <= Capacity
     /\ ZeroFree(fin.data)) => fout[1].read[1] = fin.data

-----------------------------------------------------------------------------
(* SpecRetry: one call of retryWithBackoff around an operation that may      *)
(* resolve or reject at every invocation                                     *)

\* the largest maxAttempts a call is given
MaxAttemptsArg == 4

\* what an invocation resolves with, and the errors it rejects with
Values == {"receipt", "none"}
Errors == {"timeout", "revert"}

\* retryWithBackoff's delayMs, in milliseconds
delayMs == 3000

InitRetry ==
    /\ fin \in [maxAttempts : 0..MaxAttemptsArg]
    /\ fout = <<[pc |-> "for", attempt |-> 1, running |-> 0, settled |-> <<>>,
                 waits |-> <<>>, result |-> <<>>]>>
    /\ VaultIdle
    /\ OracleIdle

RetryFrame == UNCHANGED <<fin, vaultVars, oracleVars>>

\* an invocation of the operation and how it settled
Settled(attempt, how, with) == [attempt |-> attempt, how |-> how, with |-> with]

\* the catch block gives up one attempt early
AfterFailureMut(attempt, maxAttemptsArg) ==
    IF attempt + 1 < maxAttemptsArg THEN "delay" ELSE "thrown"

\* the catch block: wait and go round again, or throw the error
AfterFailure(attempt, maxAttemptsArg) ==
    IF attempt < maxAttemptsArg THEN "delay" ELSE "thrown"

\* the loop test holds and operation() is called
Invoke ==
    /\ fout[1].pc = "for"
    /\ fout[1].attempt <= fin.maxAttempts
    /\ fout' = <<[fout[1] EXCEPT !.pc = "operation", !.running = @ + 1]>>
    /\ RetryFrame

\* the loop test fails: throw new Error("Should never reach here")
ShouldNeverReachHere ==
    /\ fout[1].pc = "for"
    /\ fout[1].attempt > fin.maxAttempts
    /\ fout' = <<[fout[1] EXCEPT !.pc = "thrown", !.result = <<"unreachable">>]>>
    /\ RetryFrame

\* the awaited operation resolves: return its value
OperationResolves ==
    \E value \in Values :
        /\ fout[1].pc = "operation"
        /\ fout' = <<[fout[1] EXCEPT
                        !.pc = "returned",
                        !.running = @ - 1,
                        !.settled = Append(@, Settled(fout[1].attempt, "resolved", value)),
                        !.result = <<value>>]>>
        /\ RetryFrame

\* the awaited operation rejects: the catch block
OperationRejects ==
    \E error \in Errors :
        /\ fout[1].pc = "operation"
        /\ LET to == AfterFailure(fout[1].attempt, fin.maxAttempts)
           IN  fout' = <<[fout[1] EXCEPT
                            !.pc = to,
                            !.running = @ - 1,
                            !.settled = Append(@, Settled(fout[1].attempt, "rejected", error)),
                            !.waits = IF to = "delay" THEN Append(@, delayMs) ELSE @,
                            !.result = IF to = "thrown" THEN <<error>> ELSE <<>>]>>
        /\ RetryFrame

\* the timer of the delay fires: attempt++
DelayElapsed ==
    /\ fout[1].pc = "delay"
    /\ fout' = <<[fout[1] EXCEPT !.pc = "for", !.attempt = @ + 1]>>
    /\ RetryFrame

NextRetry ==
    \/ Invoke
    \/ ShouldNeverReachHere
    \/ OperationResolves
    \/ OperationRejects
    \/ DelayElapsed

SpecRetry == InitRetry /\ [][NextRetry]_vars

\* every invocation settles, every timer fires and every continuation runs
SpecRetryLive == SpecRetry /\ WF_vars(NextRetry)

\* the number of invocations made so far
Invocations == Len(fout[1].settled) + fout[1].running

RetryDone == fout[1].pc \in {"returned", "thrown"}

RetrySafe ==
    LET c == fout[1]
        n == Len(c.settled)
    IN  /\ Invocations <= fin.maxAttempts
        /\ c.running \in {0, 1}
        /\ \A k \in 1..n : c.settled[k].attempt = k
        /\ \A k \in 1..(n - 1) : c.settled[k].how = "rejected"
        /\ c.pc = "returned" <=> (n > 0 /\ c.settled[n].how = "resolved")
        /\ c.pc = "returned" => (c.running = 0 /\ c.result = <<c.settled[n].with>>)
        /\ c.pc = "thrown" =>
              /\ c.running = 0
              /\ n = fin.maxAttempts
              /\ c.settled[n].how = "rejected"
              /\ c.result = <<c.settled[n].with>>

\* C30: retryWithBackoff(op, maxAttempts >= 1) invokes op at most maxAttempts
\* times, one invocation at a time; it returns the result of the first
\* invocation that succeeds and invokes op no further; when all maxAttempts
\* invocations fail it rejects with the error of the last one; and it ends
\* whenever every invocation settles.
C30_Retry ==
    /\ [](fin.maxAttempts >= 1 => RetrySafe)
    /\ [][fout[1].pc \in {"returned", "thrown"} => fout' = fout]_vars
    /\ <>RetryDone

\* a call with three attempts has returned the value of its third invocation
\* after two rejections
C30_Witness ==
    /\ fin.maxAttempts = 3
    /\ fout[1].pc = "returned"
    /\ Len(fout[1].settled) = 3
    /\ fout[1].settled[2].how = "rejected"
    /\ fout[1].result = <<"receipt">>

\* C31: the wait before attempt k+1 is a fixed multiple, greater than 1, of
\* the wait before attempt k, and no wait follows the final failed attempt.
C31_Exponential ==
    LET w == fout[1].waits
    IN  /\ \A k \in 1..(Len(w) - 1) :
              /\ w[k + 1] > w[k]
              /\ w[k + 1] * w[1] = w[k] * w[2]
        /\ fout[1].pc = "thrown" /\ fin.maxAttempts >= 1 => Len(w) = fin.maxAttempts - 1

\* what holds: every wait is delayMs, one after every failed attempt but the
\* last
ConstantDelay ==
    LET w == fout[1].waits
    IN  /\ \A k \in 1..Len(w) : w[k] = delayMs
        /\ fout[1].pc = "thrown" /\ fin.maxAttempts >= 1 => Len(w) = fin.maxAttempts - 1
        /\ fout[1].pc = "returned" => Len(w) = Len(fout[1].settled) - 1

-----------------------------------------------------------------------------
(* SpecSales: the dynamic-premium InsuranceVault over a long run of sales by *)
(* one buyer, with the first policy claimed along the way                    *)

\* the largest number of policies sold in a run of sales
MaxSales == 12

InitSales ==
    /\ rev = "dynamic"
    /\ policies = <<>>
    /\ nextPolicyId = 1
    /\ totalPoliciesSold = 0
    /\ currentPrices = <<InitialPrice("dynamic")>>
    /\ priceMerkleRoot = ZERO
    /\ rootPrices = <<>>
    /\ paidOut = <<>>
    /\ vaultBalance = 0
    /\ last = <<>>
    /\ fin = [succeeded |-> 0]
    /\ fout = <<>>
    /\ OracleIdle

\* buyPolicy with the premium of the current quote or of the first quote,
\* and the policy count of the current quote or of the first
SalesBuy ==
    /\ Len(policies) < MaxSales
    /\ \E funded \in BOOLEAN,
          premium \in {VaultTierPremium(3, totalPoliciesSold), VaultTierPremium(3, 0)},
          quotePolicyCount \in {totalPoliciesSold, 0} :
          buyPolicy("alice", PurchaseCommitment("dynamic"), premium, quotePolicyCount,
                    funded, PolicyStart)
    /\ fin' = [succeeded |-> fin.succeeded + IF last'[1].ok THEN 1 ELSE 0]
    /\ UNCHANGED <<fout, oracleVars>>

\* the price updater drops the product's price
SalesUpdate ==
    /\ updatePrice(Owner, 1, InitialPrice("dynamic") - PriceDrop("dynamic"))
    /\ UNCHANGED <<fnVars, oracleVars>>

\* claimPayout for the first policy, by its buyer and by another caller
SalesClaim ==
    /\ \E a \in DynamicAttempts(1), caller \in Buyers :
           claimPayout(caller, 1, 1, a.purchasePrice, a.proof, a.publicInputs)
    /\ UNCHANGED <<fnVars, oracleVars>>

\* getQuote, the view call; the caller keeps the answer
SalesQuote ==
    /\ fout' = <<getQuote(totalPoliciesSold)>>
    /\ UNCHANGED <<fin, vaultVars, oracleVars>>

NextSales ==
    \/ SalesBuy
    \/ SalesQuote
    \/ SalesUpdate
    \/ SalesClaim

SpecSales == InitSales /\ [][NextSales]_vars

\* C32: after any sequence of buyPolicy and claimPayout calls of which n
\* buyPolicy calls succeeded, totalPoliciesSold = n and getDynamicFactor() is
\* 100 + floor(n / 10); a reverted buyPolicy and any claimPayout leave
\* totalPoliciesSold, and with it the factor, unchanged.
C32_Sold ==
    /\ [](/\ totalPoliciesSold = fin.succeeded
          /\ getDynamicFactor(totalPoliciesSold) = 100 + (fin.succeeded \div 10)
          /\ Len(policies) = fin.succeeded)
    /\ [][(last' # <<>> /\ (last'[1].op = "claimPayout" \/ ~last'[1].ok)) =>
             /\ totalPoliciesSold' = totalPoliciesSold
             /\ getDynamicFactor(totalPoliciesSold') = getDynamicFactor(totalPoliciesSold)]_vars

\* eleven policies have been sold, the factor is 101, a further purchase has
\* reverted, and the first policy's claim has been paid
C32_Witness ==
    /\ fin # <<>>
    /\ rev = "dynamic"
    /\ fin.succeeded = 11
    /\ getDynamicFactor(totalPoliciesSold) = 101
    /\ policies[1].alreadyClaimed
    /\ last[1].op = "buyPolicy" /\ ~last[1].ok

\* floor(basePremium * factor / 100), the premium of a tier at a factor
expectedPremium(basePremium, factor) == MulDiv(basePremium, factor, 100)

\* C33: for each tier floor(basePremium * factor / 100) is non-decreasing in
\* the dynamic factor, and of two successive getQuote answers the later one
\* quotes, for every tier, at least the premium of the earlier one.
C33_Monotone ==
    /\ [](\A basePremium \in {TIER1_BASE, TIER2_BASE, TIER3_BASE} :
             \A f1, f2 \in getDynamicFactor(0)..getDynamicFactor(10 * MaxCount) :
                 f1 <= f2 => expectedPremium(basePremium, f1) <= expectedPremium(basePremium, f2))
    /\ [](fout # <<>> =>
             /\ fout[1].tier1Premium = expectedPremium(TIER1_BASE, fout[1].currentDynamicFactor)
             /\ fout[1].tier2Premium = expectedPremium(TIER2_BASE, fout[1].currentDynamicFactor)
             /\ fout[1].tier3Premium = expectedPremium(TIER3_BASE, fout[1].currentDynamicFactor))
    /\ [][(fout # <<>> /\ fout' # <<>>) =>
             /\ fout'[1].currentPolicyCount >= fout[1].currentPolicyCount
             /\ fout'[1].tier1Premium >= fout[1].tier1Premium
             /\ fout'[1].tier2Premium >= fout[1].tier2Premium
             /\ fout'[1].tier3Premium >= fout[1].tier3Premium]_vars

\* a quote taken after eleven sales, above the premium of the first quote
C33_Witness ==
    /\ fin # <<>>
    /\ rev = "dynamic"
    /\ fout # <<>>
    /\ fout[1].currentPolicyCount = 11
    /\ fout[1].currentPolicyCount = totalPoliciesSold
    /\ fout[1].tier1Premium > VaultTierPremium(1, 0)

-----------------------------------------------------------------------------
(* SpecRegistry: MerkleRootBlobRegistry. fin holds the deployment (the owner *)
(* and the block time), fout the contract's storage, last the latest call.   *)

\* the largest number of updateMerkleRoot calls that succeed in a run
MaxUpdates == 3

\* bytes32(0)
Bytes32Zero == 0

\* the roots and the versioned blob hashes the callers pass, bytes32(0) among them
Bytes32Values == {Bytes32Zero, 1, 2}

Accounts == {"deployer", "stranger"}

\* constructor() Ownable(msg.sender) {}
InitRegistry ==
    /\ fin = [owner |-> "deployer", timestamp |-> 1]
    /\ fout = [currentMerkleRoot |-> Bytes32Zero,
               merkleHistory |-> <<>>,
               validMerkleRoots |-> [r \in Bytes32Values |-> FALSE]]
    /\ last = <<>>
    /\ rev = "none"
    /\ policies = <<>>
    /\ nextPolicyId = 1
    /\ totalPoliciesSold = 0
    /\ currentPrices = <<>>
    /\ priceMerkleRoot = ZERO
    /\ rootPrices = <<>>
    /\ paidOut = <<>>
    /\ vaultBalance = 0
    /\ OracleIdle

RegistryFrame ==
    UNCHANGED <<rev, policies, nextPolicyId, totalPoliciesSold, currentPrices,
                priceMerkleRoot, rootPrices, paidOut, vaultBalance, oracleVars>>

\* a call that reverts: storage is as before the call
RegistryRevert(call, error) ==
    /\ last' = <<call @@ [ok |-> FALSE, error |-> error, returned |-> <<>>]>>
    /\ UNCHANGED fout

\* a view call that returns
RegistryReturn(call, value) ==
    /\ last' = <<call @@ [ok |-> TRUE, error |-> "", returned |-> <<value>>]>>
    /\ UNCHANGED fout

\* merkleHistory.push dropping the entry before it
pushMut(history, update) ==
    IF history = <<>> THEN <<update>> ELSE [history EXCEPT ![Len(history)] = update]

\* merkleHistory.push(MerkleUpdate({...}))
push(history, update) == Append(history, update)

\* updateMerkleRoot without the blob hash requirement
updateMerkleRootMut(sender, _merkleRoot, blobhash0, timestamp) ==
    LET call == [op |-> "updateMerkleRoot", sender |-> sender, arg |-> _merkleRoot,
                 blobHash |-> blobhash0]
    IN  IF sender # fin.owner
        THEN RegistryRevert(call, "OwnableUnauthorizedAccount")
        ELSE IF _merkleRoot = Bytes32Zero
        THEN RegistryRevert(call, "MerkleRegistry: Invalid merkle root")
        ELSE /\ fout' = [currentMerkleRoot |-> _merkleRoot,
                         validMerkleRoots |-> [fout.validMerkleRoots EXCEPT ![_merkleRoot] = TRUE],
                         merkleHistory |-> push(fout.merkleHistory,
                                                [merkleRoot |-> _merkleRoot,
                                                 blobHash |-> blobhash0,
                                                 timestamp |-> timestamp])]
             /\ last' = <<call @@ [ok |-> TRUE, error |-> "", returned |-> <<>>]>>

\* MerkleRootBlobRegistry.updateMerkleRoot in a transaction whose first blob
\* has the versioned hash blobhash0 (bytes32(0) when it carries no blob)
updateMerkleRoot(sender, _merkleRoot, blobhash0, timestamp) ==
    LET call == [op |-> "updateMerkleRoot", sender |-> sender, arg |-> _merkleRoot,
                 blobHash |-> blobhash0]
    IN  IF sender # fin.owner
        THEN RegistryRevert(call, "OwnableUnauthorizedAccount")
        ELSE IF _merkleRoot = Bytes32Zero
        THEN RegistryRevert(call, "MerkleRegistry: Invalid merkle root")
        ELSE IF blobhash0 = Bytes32Zero
        THEN RegistryRevert(call, "MerkleRegistry: No blob hash found")
        ELSE /\ fout' = [currentMerkleRoot |-> _merkleRoot,
                         validMerkleRoots |-> [fout.validMerkleRoots EXCEPT ![_merkleRoot] = TRUE],
                         merkleHistory |-> push(fout.merkleHistory,
                                                [merkleRoot |-> _merkleRoot,
                                                 blobHash |-> blobhash0,
                                                 timestamp |-> timestamp])]
             /\ last' = <<call @@ [ok |-> TRUE, error |-> "", returned |-> <<>>]>>

\* a transaction calling updateMerkleRoot, in the block of the latest recorded
\* update or in a later one
RegistryUpdate ==
    /\ Len(fout.merkleHistory) < MaxUpdates
    /\ \E sender \in Accounts, _merkleRoot \in Bytes32Values, blobhash0 \in Bytes32Values,
          timestamp \in {fin.timestamp, fin.timestamp + 1} :
          /\ updateMerkleRoot(sender, _merkleRoot, blobhash0, timestamp)
          /\ fin' = IF last'[1].ok THEN [fin EXCEPT !.timestamp = timestamp] ELSE fin
    /\ RegistryFrame

GetMerkleHistoryLength ==
    /\ RegistryReturn([op |-> "getMerkleHistoryLength", sender |-> "stranger",
                       arg |-> <<>>, blobHash |-> Bytes32Zero],
                      Len(fout.merkleHistory))
    /\ UNCHANGED fin
    /\ RegistryFrame

GetLatestUpdate ==
    /\ LET call == [op |-> "getLatestUpdate", sender |-> "stranger", arg |-> <<>>,
                    blobHash |-> Bytes32Zero]
       IN  IF Len(fout.merkleHistory) > 0
           THEN RegistryReturn(call, fout.merkleHistory[Len(fout.merkleHistory)])
           ELSE RegistryRevert(call, "MerkleRegistry: No updates recorded")
    /\ UNCHANGED fin
    /\ RegistryFrame

\* _index counts from zero
GetMerkleUpdate ==
    /\ \E _index \in 0..MaxUpdates :
           LET call == [op |-> "getMerkleUpdate", sender |-> "stranger", arg |-> _index,
                        blobHash |-> Bytes32Zero]
           IN  IF _index < Len(fout.merkleHistory)
               THEN RegistryReturn(call, fout.merkleHistory[_index + 1])
               ELSE RegistryRevert(call, "MerkleRegistry: Index out of bounds")
    /\ UNCHANGED fin
    /\ RegistryFrame

IsMerkleRootValid ==
    /\ \E _merkleRoot \in Bytes32Values :
           RegistryReturn([op |-> "isMerkleRootValid", sender |-> "stranger",
                           arg |-> _merkleRoot, blobHash |-> Bytes32Zero],
                          fout.validMerkleRoots[_merkleRoot])
    /\ UNCHANGED fin
    /\ RegistryFrame

NextRegistry ==
    \/ RegistryUpdate
    \/ GetMerkleHistoryLength
    \/ GetLatestUpdate
    \/ GetMerkleUpdate
    \/ IsMerkleRootValid

SpecRegistry == InitRegistry /\ [][NextRegistry]_vars

\* the latest call is an updateMerkleRoot
IsUpdate(call) == call # <<>> /\ call[1].op = "updateMerkleRoot"

\* C34: updateMerkleRoot succeeds only when the caller is the owner, the root
\* is not bytes32(0) and the transaction carries a blob (blobhash(0) is not
\* zero); otherwise it reverts and leaves currentMerkleRoot, validMerkleRoots
\* and merkleHistory unchanged.
C34_UpdateGuards ==
    [][IsUpdate(last') =>
          /\ last'[1].ok <=> /\ last'[1].sender = fin.owner
                             /\ last'[1].arg # Bytes32Zero
                             /\ last'[1].blobHash # Bytes32Zero
          /\ ~last'[1].ok => fout' = fout
          /\ last'[1].ok =>
                /\ fout'.currentMerkleRoot = last'[1].arg
                /\ fout'.validMerkleRoots[last'[1].arg]
                /\ Len(fout'.merkleHistory) = Len(fout.merkleHistory) + 1]_vars

\* the owner's update without a blob has reverted after an update that was
\* recorded, and the record stands
C34_Witness ==
    /\ IsUpdate(last)
    /\ ~last[1].ok
    /\ last[1].sender = fin.owner
    /\ last[1].arg = 2
    /\ last[1].blobHash = Bytes32Zero
    /\ fout.currentMerkleRoot = 1
    /\ Len(fout.merkleHistory) = 1

\* the roots recorded in a history
RootsOf(history) == {history[i].merkleRoot : i \in 1..Len(history)}

\* C40: merkleHistory only grows and its recorded entries are never
\* modified; validMerkleRoots[r] is true exactly for the roots that occur in
\* merkleHistory, and stays true; currentMerkleRoot is the root of the last
\* history entry, or bytes32(0) while the history is empty.
C40_History ==
    /\ [](fin # <<>> =>
             /\ \A r \in Bytes32Values : fout.validMerkleRoots[r] <=> r \in RootsOf(fout.merkleHistory)
             /\ fout.currentMerkleRoot =
                    IF fout.merkleHistory = <<>> THEN Bytes32Zero
                    ELSE fout.merkleHistory[Len(fout.merkleHistory)].merkleRoot
             /\ last # <<>> /\ last[1].ok /\ last[1].op = "isMerkleRootValid" =>
                    last[1].returned[1] = (last[1].arg \in RootsOf(fout.merkleHistory))
             /\ last # <<>> /\ last[1].ok /\ last[1].op = "getLatestUpdate" =>
                    last[1].returned[1].merkleRoot = fout.currentMerkleRoot)
    /\ [][/\ Len(fout'.merkleHistory) >= Len(fout.merkleHistory)
          /\ SubSeq(fout'.merkleHistory, 1, Len(fout.merkleHistory)) = fout.merkleHistory
          /\ \A r \in Bytes32Values : fout.validMerkleRoots[r] => fout'.validMerkleRoots[r]]_vars

\* three updates recorded, the first root recorded again after another
C40_Witness ==
    /\ fin # <<>>
    /\ Len(fout.merkleHistory) = 3
    /\ fout.merkleHistory[1].merkleRoot = 1
    /\ fout.merkleHistory[2].merkleRoot = 2
    /\ fout.merkleHistory[3].merkleRoot = 1
    /\ fout.currentMerkleRoot = 1
    /\ last[1].op = "isMerkleRootValid" /\ last[1].arg = 2 /\ last[1].returned[1]

-----------------------------------------------------------------------------
(* SpecWitness: witnesses of the five-tier claim circuit against the tree    *)
(* the oracle has published. fin holds the purchase, the oracle's price of   *)
(* the committed product and what the claimant feeds the circuit; fout the   *)
(* circuit's verdict.                                                        *)

\* invoice prices inside tiers 2, 3 and 4
WitnessPrices == {T5_TIER2_MIN, T5_TIER3_MIN, T5_TIER4_MIN}

\* the leaf the claimant passes as leafHash: the committed product's leaf of
\* the oracle's tree, another product's leaf of that tree, or the hash of the
\* committed product with the price the claimant declares
LeafChoices == {"product", "other", "declared"}

InitWitness ==
    /\ \E invoicePrice \in WitnessPrices, drop \in {0, PriceStep},
          declared \in {0, PriceStep, 2 * PriceStep}, leaf \in LeafChoices,
          invoiceDate \in 0..MaxDate, selectedTier \in 2..4 :
          fin = [invoicePrice |-> invoicePrice,
                 oraclePrice |-> invoicePrice - drop,
                 currentPrice |-> invoicePrice - declared,
                 leaf |-> leaf,
                 invoiceDate |-> invoiceDate,
                 policyStartDate |-> PolicyStart,
                 selectedTier |-> selectedTier,
                 paidPremium |-> CircuitExpectedPremium5(selectedTier),
                 purchaseCount |-> 0]
    /\ fout = <<>>
    /\ VaultIdle
    /\ OracleIdle

\* the committed product: the first of the catalog
CommittedProduct == 1

\* the witness the claimant assembles: the oracle's tree and root, the
\* claimant's own choice of currentPrice and leafHash
ChosenWitness(f) ==
    LET levels == TreeAt(f.oraclePrice)
        index == IF f.leaf = "other" THEN 1 ELSE 0
        proof == getProof(levels, index)
        productHash == calculateProductHash(CommittedProduct)
        h == HonestWitness([f EXCEPT !.currentPrice = f.oraclePrice])
    IN  [h EXCEPT !.productHash = productHash,
                  !.commitment = Poseidon6(h.orderHash, FE(f.invoicePrice), FE(f.invoiceDate),
                                           productHash, h.salt, FE(f.selectedTier)),
                  !.currentPrice = f.currentPrice,
                  !.leafHash = IF f.leaf = "declared"
                               THEN calculateLeafHash(productHash, f.currentPrice)
                               ELSE levels[1][index + 1],
                  !.merkleProof = proof.siblings,
                  !.leafIndex = proof.pathIndices,
                  !.merkleRoot = getRoot(levels)]

\* witness generation: the circuit's constraints and outputs on the witness
CheckWitness ==
    /\ fout = <<>>
    /\ \E w \in {ChosenWitness(fin)} :
           fout' = <<[witness |-> w, circuit |-> ClaimCircuitMerkle(w)]>>
    /\ UNCHANGED <<fin, vaultVars, oracleVars>>

NextWitness == CheckWitness

SpecWitness == InitWitness /\ [][NextWitness]_vars

\* the circuit is satisfied and outputs validClaim = validPremium = validPayout = 1
AllValid(r) ==
    /\ r.circuit.sat
    /\ r.circuit.validClaim = 1
    /\ r.circuit.validPremium = 1
    /\ r.circuit.validPayout = 1

\* C35: whenever the circuit is satisfied with validClaim = validPremium =
\* validPayout = 1, leafHash is the hash of the committed productHash and the
\* witness's currentPrice, that leaf is in the oracle's tree, and so
\* currentPrice is the oracle's price of the committed product.
C35_LeafBinding ==
    (fout # <<>> /\ "witness" \in DOMAIN fout[1] /\ AllValid(fout[1])) =>
        /\ fout[1].witness.leafHash =
               calculateLeafHash(fout[1].witness.productHash, fout[1].witness.currentPrice)
        /\ fout[1].witness.currentPrice = fin.oraclePrice

\* what the circuit does establish: the leaf passed as leafHash is a leaf of
\* the tree whose root is merkleRoot
LeafInTree ==
    (fout # <<>> /\ "witness" \in DOMAIN fout[1] /\ fout[1].circuit.sat) =>
        \E i \in 1..LEAVES : TreeAt(fin.oraclePrice)[1][i] = fout[1].witness.leafHash

-----------------------------------------------------------------------------
(* SpecBinding: the Merkle-root InsuranceVault with the arguments of every   *)
(* claimPayout and updatePriceMerkleRoot call kept in fout, and the roots    *)
(* published so far in fin, with the policies whose claim was refused for    *)
(* presenting one of the replaced roots                                      *)

\* the largest number of policies sold in a run
MaxBound == 1

InitBinding ==
    /\ rev = "merkle"
    /\ policies = <<>>
    /\ nextPolicyId = 1
    /\ totalPoliciesSold = 0
    /\ currentPrices = <<>>
    /\ priceMerkleRoot = ZERO
    /\ rootPrices = <<>>
    /\ paidOut = <<>>
    /\ vaultBalance = 0
    /\ last = <<>>
    /\ fin = [published |-> {}, refused |-> {}]
    /\ fout = <<>>
    /\ OracleIdle

\* the price the oracle's root commits to for the product, the purchase price
\* while no root is published
RootPrice == IF rootPrices = <<>> THEN InitialPrice(rev) ELSE rootPrices[1]

\* the claims tried: those of MerkleAttempts, the honest claim prepared for
\* the tree of the other price the oracle publishes (with that tree's root),
\* and a proof made for a tree of the claimant's own presented with the
\* contract's root
BindingAttempts(policyId) ==
    LET policy == PolicyAt(policyId)
        other == CHOOSE p \in NewPrices(rev) : p # RootPrice
        earlier == WitnessFor(policyId, InitialPrice(rev), other)
        own == WitnessFor(policyId, InitialPrice(rev), RootPrice - PriceDrop(rev))
    IN  MerkleAttempts(policyId) \cup
        {[commitment |-> earlier.commitment, merkleRoot |-> earlier.merkleRoot,
          policyStartDate |-> earlier.policyStartDate, paidPremium |-> earlier.paidPremium,
          proof |-> earlier, publicInputs |-> PublicSignalsMerkle(earlier)],
         [commitment |-> policy.secretCommitment, merkleRoot |-> priceMerkleRoot,
          policyStartDate |-> policy.policyPurchaseDate,
          paidPremium |-> policy.paidPremium,
          proof |-> own, publicInputs |-> PublicSignalsMerkle(own)]}

BindingBuy ==
    /\ Len(policies) < MaxBound
    /\ \E caller \in Buyers, funded \in BOOLEAN :
          buyPolicyMerkle(caller, PurchaseCommitment("merkle"), TIER4_PREMIUM, funded,
                          PolicyStart)
    /\ UNCHANGED <<fnVars, oracleVars>>

BindingUpdateRoot ==
    /\ \E caller \in {Owner, "alice"}, p \in NewPrices("merkle") :
          /\ updatePriceMerkleRoot(caller, getRoot(TreeAt(p)), <<p>>)
          /\ fout' = <<[op |-> "updatePriceMerkleRoot", caller |-> caller,
                        policies |-> policies]>>
    /\ fin' = [fin EXCEPT !.published = IF priceMerkleRoot' # priceMerkleRoot
                                         THEN @ \cup {priceMerkleRoot}
                                         ELSE @]
    /\ UNCHANGED oracleVars

BindingClaim ==
    /\ \E policyId \in 1..MaxBound :
           \E a \in BindingAttempts(policyId), caller \in Buyers :
               /\ claimPayoutMerkle(caller, policyId, a.commitment, a.merkleRoot,
                                    a.policyStartDate, a.paidPremium, a.proof, a.publicInputs)
               /\ fout' = <<[op |-> "claimPayout", caller |-> caller, policyId |-> policyId,
                             call |-> a, policy |-> PolicyAt(policyId),
                             priceMerkleRoot |-> priceMerkleRoot,
                             vaultBalance |-> vaultBalance]>>
               /\ fin' = [fin EXCEPT !.refused =
                              IF /\ last'[1].reason = "Wrong merkle root"
                                 /\ a.merkleRoot \in fin.published \ {ZERO}
                              THEN @ \cup {policyId} ELSE @]
    /\ UNCHANGED oracleVars

NextBinding ==
    \/ BindingBuy
    \/ BindingUpdateRoot
    \/ BindingClaim

SpecBinding == InitBinding /\ [][NextBinding]_vars

\* the latest call was a claimPayout
ClaimCalled == last # <<>> /\ last[1].op = "claimPayout" /\ fout # <<>> /\ fout[1].op = "claimPayout"

\* C36: a successful claimPayout for a policy implies that the commitment,
\* Merkle root, policy start date and paid premium the contract compared with
\* the policy and with priceMerkleRoot are the values the verified proof was
\* generated for.
C36_ProofBound ==
    (ClaimCalled /\ last[1].ok) =>
        LET a == fout[1].call
        IN  /\ a.proof.commitment = fout[1].policy.secretCommitment
            /\ a.proof.merkleRoot = fout[1].priceMerkleRoot
            /\ a.proof.policyStartDate = fout[1].policy.policyPurchaseDate
            /\ a.proof.paidPremium = fout[1].policy.paidPremium

\* what the contract does establish: the four arguments equal its storage
ArgumentsMatchStorage ==
    (ClaimCalled /\ last[1].ok) =>
        LET a == fout[1].call
        IN  /\ a.commitment = fout[1].policy.secretCommitment
            /\ a.merkleRoot = fout[1].priceMerkleRoot
            /\ a.policyStartDate = fout[1].policy.policyPurchaseDate
            /\ a.paidPremium = fout[1].policy.paidPremium

\* the latest call was an updatePriceMerkleRoot
RootUpdateCalled ==
    last # <<>> /\ last[1].op = "updatePriceMerkleRoot" /\ fout # <<>> /\ fout[1].op = "updatePriceMerkleRoot"

\* the latest claimPayout presented a root that was priceMerkleRoot earlier
\* and no longer is
OlderRootPresented ==
    /\ ClaimCalled
    /\ fout[1].call.merkleRoot \in fin.published
    /\ fout[1].call.merkleRoot # fout[1].priceMerkleRoot

\* the requirements claimPayout makes before it compares the root
EarlierChecksPass ==
    /\ fout[1].policy.buyer # NoAddress
    /\ ~fout[1].policy.alreadyClaimed
    /\ fout[1].policy.buyer = fout[1].caller
    /\ fout[1].policy.secretCommitment = fout[1].call.commitment

\* C39: a claimPayout presenting an older root than the current
\* priceMerkleRoot reverts (with 'Wrong merkle root' when the policy is the
\* caller's, unclaimed, and the commitment is the stored one), transfers
\* nothing and leaves the policy unclaimed, so that the policy can still be
\* claimed with the current root; updatePriceMerkleRoot succeeds only for the
\* price updater and changes no policy.
C39_StaleRoot ==
    /\ [](OlderRootPresented =>
             /\ ~last[1].ok
             /\ last[1].amount = 0
             /\ EarlierChecksPass => last[1].reason = "Wrong merkle root")
    /\ [][(ClaimCalled' /\ ~last'[1].ok) =>
             /\ policies' = policies
             /\ vaultBalance' = vaultBalance
             /\ paidOut' = paidOut
             /\ priceMerkleRoot' = priceMerkleRoot]_vars
    /\ [][RootUpdateCalled' =>
             /\ last'[1].ok <=> fout'[1].caller = Owner
             /\ ~last'[1].ok => priceMerkleRoot' = priceMerkleRoot
             /\ policies' = policies
             /\ vaultBalance' = vaultBalance]_vars

\* a policy whose claim with a replaced root was refused has then been paid,
\* once, on a claim with the current root
C39_Witness ==
    /\ ClaimCalled
    /\ last[1].ok
    /\ last[1].policyId \in fin.refused
    /\ fout[1].call.merkleRoot = priceMerkleRoot
    /\ fout[1].call.proof.merkleRoot = priceMerkleRoot
    /\ Cardinality(fin.published) >= 2
    /\ policies[last[1].policyId].alreadyClaimed
    /\ Len(paidOut[last[1].policyId]) = 1

-----------------------------------------------------------------------------
(* The oracle's local state between operations (SpecServer)                  *)

\* init() is past initializeTreeState and the process runs; a mutation's
\* rebuild and save are one step, so none is under way in any such state
NoOperationInProgress == olog # <<>> /\ "pc" \in DOMAIN olog /\ olog.pc \notin {"initializeTreeState", "exited"}

\* the in-memory leaves are the leaf hashes of the price map in catalog
\* order, padded, and leafHashMap holds the same hashes
TreeOfPrices ==
    /\ oTree # <<>>
    /\ oTree.levels[1] = generateLeafValues(Catalog(OracleProducts), oPrices)
    /\ \A id \in 1..OracleProducts :
           /\ oTree.leafHashMap[id] = oTree.levels[1][id]
           /\ oTree.leafHashMap[id] = calculateLeafHash(calculateProductHash(id), oPrices[id])

\* the snapshot file holds the in-memory leaves, root and prices
SnapshotOfTree ==
    /\ load(oFile) # <<>>
    /\ load(oFile)[1].leaves = oTree.levels[1]
    /\ load(oFile)[1].root = getRoot(oTree.levels)
    /\ MapOf(load(oFile)[1].currentPrices) = oPrices

\* C37: whenever no oracle operation is in progress (after init, after each
\* completed or failed mutation, after resuming from a snapshot) the
\* in-memory leaves are the leaf hashes of the current price map in catalog
\* order, leafHashMap agrees with them, and the persisted snapshot holds the
\* same leaves, root and prices.
C37_LocalState == NoOperationInProgress => (TreeOfPrices /\ SnapshotOfTree)

\* the same after a start with --force-rebuild and while no snapshot write
\* has failed
LocalStateWithoutFaults ==
    (NoOperationInProgress /\ olog.mode = "forceRebuild" /\ olog.failures = 0) =>
        (TreeOfPrices /\ SnapshotOfTree)

-----------------------------------------------------------------------------
(* SpecPrepare: the claim preparer (generateClaimProof) asking a running     *)
(* oracle for a product's proof and then for the root, while the oracle      *)
(* serves price mutations.  fout holds the preparer: its position, the       *)
(* responses it has received and the circuit inputs it builds.               *)

InitPrepare ==
    /\ fin = [n |-> OracleProducts]
    /\ oPrices = basePriceMap(Catalog(fin.n))
    /\ oTree = buildMerkleTreeFromProducts(Catalog(fin.n), basePriceMap(Catalog(fin.n)))
    /\ oFile = saveTreeToFile(oTree, oPrices)
    /\ olog = [ops |-> 0, last |-> <<>>]
    /\ fout = <<>>
    /\ chainRoot = ZERO
    /\ reqs = <<>>
    /\ VaultIdle

PrepareFrame == UNCHANGED <<fin, oracleVars, vaultVars>>

\* getMerkleRootSync, of an initialized oracle
getMerkleRootSync == getRoot(oTree.levels)

\* await oracle.getMerkleProof(productId): GET /api/merkle-proof/:productId
FetchMerkleProof ==
    /\ fout = <<>>
    /\ \E productId \in ProductIds :
           \E oracleProof \in {getMerkleProof(products, oTree, oPrices, productId)} :
               fout' = <<[pc |-> IF oracleProof.error = <<>> THEN "getMerkleRoot" ELSE "thrown",
                          productId |-> productId,
                          oracleProof |-> oracleProof,
                          merkleRoot |-> <<>>,
                          circuitInputs |-> <<>>,
                          mutations |-> olog.ops]>>
    /\ PrepareFrame

\* await oracle.getMerkleRoot(): GET /api/merkle-root
FetchMerkleRoot ==
    /\ fout # <<>>
    /\ fout[1].pc = "getMerkleRoot"
    /\ fout' = <<[fout[1] EXCEPT !.pc = "createCircuitInputs",
                                 !.merkleRoot = <<getMerkleRootSync>>,
                                 !.mutations = olog.ops - @]>>
    /\ PrepareFrame

\* ProofGenerator.createCircuitInputs: the oracle's part of the inputs
createCircuitInputs(oracleProof, merkleRoot) ==
    [currentPrice |-> oracleProof.currentPrice,
     leafHash |-> oracleProof.leaf,
     merkleProof |-> oracleProof.siblings,
     leafIndex |-> oracleProof.pathIndices,
     merkleRoot |-> merkleRoot]

CreateCircuitInputs ==
    /\ fout # <<>>
    /\ fout[1].pc = "createCircuitInputs"
    /\ fout' = <<[fout[1] EXCEPT !.pc = "generateProof",
                                 !.circuitInputs =
                                     <<createCircuitInputs(fout[1].oracleProof,
                                                           fout[1].merkleRoot[1])>>]>>
    /\ PrepareFrame

NextPrepare ==
    \/ FetchMerkleProof
    \/ FetchMerkleRoot
    \/ CreateCircuitInputs
    \/ RouteSetPrice
    \/ RouteDropPrices
    \/ RouteForceRebuild

SpecPrepare == InitPrepare /\ [][NextPrepare]_vars

\* the preparer holds its circuit inputs
InputsReady == fout # <<>> /\ "pc" \in DOMAIN fout[1] /\ fout[1].pc = "generateProof"

\* C38: the root in the preparer's circuit inputs, fetched by a separate
\* getMerkleRoot request, is the root for which the siblings, flags, leaf and
\* current price of its getMerkleProof response were generated, also when the
\* oracle processes a price mutation between the two requests.
C38_ConsistentInputs ==
    InputsReady =>
        LET inputs == fout[1].circuitInputs[1]
        IN  /\ inputs.merkleRoot = fout[1].oracleProof.root
            /\ MerkleTreeInclusionProof(inputs.leafHash, inputs.leafIndex, inputs.merkleProof,
                                        inputs.merkleRoot)

\* the same when the oracle processed no mutation between the two requests,
\* and, in any case, for the root the getMerkleProof response itself carries
ConsistentWithoutMutation ==
    InputsReady =>
        LET inputs == fout[1].circuitInputs[1]
        IN  /\ fout[1].mutations = 0 =>
                  /\ inputs.merkleRoot = fout[1].oracleProof.root
                  /\ MerkleTreeInclusionProof(inputs.leafHash, inputs.leafIndex,
                                              inputs.merkleProof, inputs.merkleRoot)
            /\ MerkleTreeInclusionProof(inputs.leafHash, inputs.leafIndex, inputs.merkleProof,
                                        fout[1].oracleProof.root)

=============================================================================
